---- MODULE Spec2Model ----
(***************************************************************************)
(* Model of the library ingestion pipeline of unified_web_interface.py:    *)
(* the directories New/, Library/, Duplicate/ and Trash/, the catalog kept *)
(* by MusicLibraryManager, and the operations add_music_file, scan_library *)
(* and check_duplicates_in_library, called one after another (Spec) or     *)
(* from two request threads at once (SpecConc), or on a catalog loaded     *)
(* from an earlier run (SpecLoaded); the decryptor functions               *)
(* QmcMask.decrypt, _sniff_audio_ext, decrypt_qmc, decrypt_ncm and the     *)
(* artwork embedding on byte strings (SpecCodec); unlock_music_files with  *)
(* its pool of workers, the dispatcher                                     *)
(* EnhancedUniversalDecryptor.decrypt_file and the simplified decryptors   *)
(* of MusicDecryptor, on the files of Unlocked/ (SpecUnlock); and the      *)
(* worker count of unlock_music_files (SpecWorkers).                       *)
(*                                                                         *)
(* A file name is a record [base, sfx, ext]: the text of the stem as the   *)
(* user wrote it, the "(N)" counters appended to the stem, and the         *)
(* extension.  Path.stem is base followed by the counters, Path.suffix is  *)
(* ext.  A path is [dir, sub, name]; sub is the sub-directory below dir    *)
(* ("" for the root of dir), which only rglob ever looks into.             *)
(***************************************************************************)
EXTENDS Naturals, Sequences, FiniteSets, TLC

\* ------------------------------------------------------------ bounds
\* Number of files the user ever places into New/ or Library/.
MaxFiles == 3
\* Number of times the catalog is stamped with a new last_updated.
MaxTime == 2
\* Number of calls in which a file-system step raises.
MaxFaults == 1

\* ------------------------------------------------------------ names
NoSfx == << >>

Name(b, e) == [base |-> b, sfx |-> NoSfx, ext |-> e]

\* str.lower() on the stems the model uses
Lower(b) == IF b = "Song" THEN "song" ELSE b

\* Path(p).stem.lower(): the stem is the base text followed by its counters
NormalizedName(n) == [base |-> Lower(n.base), sfx |-> n.sfx]

\* Path(p).stem
Stem(n) == [base |-> n.base, sfx |-> n.sfx]

\* f"{stem}({counter}){suffix}"
WithCounter(n, counter) == [n EXCEPT !.sfx = Append(@, counter)]

\* CONFIG['supported_formats'] (the ones the model's names use)
supported_formats == {"mp3", "flac"}

\* File contents: an MD5 hash stands for the bytes.  "A" and "B" are audio
\* that mutagen reads, "X" is a file mutagen cannot read.
\* The audio files the user has: the same bytes under names that differ in
\* case, in extension or in a "(1)" the user typed, other bytes under the
\* same name, and an unreadable file.
UserFiles ==
    { [name |-> Name("song", "mp3"),  content |-> "A"],
      [name |-> Name("Song", "mp3"),  content |-> "A"],
      [name |-> Name("song", "flac"), content |-> "B"],
      [name |-> Name("song", "mp3"),  content |-> "B"],
      [name |-> Name("song", "mp3"),  content |-> "X"],
      [name |-> [base |-> "song", sfx |-> <<1>>, ext |-> "mp3"], content |-> "A"] }

\* mutagen.File(path) returns an object for this content
Readable(c) == c \in {"A", "B"}

\* ------------------------------------------------------------ state
VARIABLES
    fs,        \* the files on disk: a set of [dir, sub, name, content]
    catalog,   \* manager.catalog: [songs, last_updated]
    disk,      \* the catalog as last written to mayi-music-list.json
    now,       \* datetime.now()
    placed,    \* number of files the user has placed so far
    faulted,   \* number of calls in which a file-system step has raised
    last,      \* what the last operation did and returned
    threads,   \* the request threads inside add_music_file, each with its locals
    start,     \* the files and catalog when the concurrent requests arrived
    batch,     \* the unlock batch in progress: its futures and its tallies
    codec      \* one call of a decryptor function: its arguments and its result

vars == <<fs, catalog, disk, now, placed, faulted, last, threads, start, batch, codec>>

Path(d, s, n) == [dir |-> d, sub |-> s, name |-> n]

PathOf(f) == Path(f.dir, f.sub, f.name)

\* Path.exists()
Exists(files, p) == \E f \in files : PathOf(f) = p

FileAt(files, p) == CHOOSE f \in files : PathOf(f) = p

InDir(files, d) == { f \in files : f.dir = d }

\* shutil.move(src, dst) for an existing src: a rename, which replaces
\* whatever file is at dst
Move(files, src, dst) ==
    LET f == FileAt(files, src)
    IN  { g \in files : PathOf(g) # src /\ PathOf(g) # dst }
            \cup { [dir |-> dst.dir, sub |-> dst.sub, name |-> dst.name,
                    content |-> f.content] }

\* The record of one move, kept in last.moves: from where to where, whether
\* a file was at the target, and the names the target directory held
MoveRec(files, src, dst) ==
    [src |-> src, dst |-> dst, existed |-> Exists(files, dst),
     taken |-> { g.name : g \in { h \in files : h.dir = dst.dir /\ h.sub = dst.sub } }]

\* "Handle filename conflicts": counter = 1; while path.exists(): path =
\* parent / stem(counter)suffix; counter += 1
RECURSIVE ConflictLoop(_, _, _, _)
ConflictLoop(files, original, candidate, counter) ==
    IF Exists(files, candidate)
    THEN ConflictLoop(files, original,
                      [original EXCEPT !.name = WithCounter(original.name, counter)],
                      counter + 1)
    ELSE candidate

FreePath(files, d, n) == ConflictLoop(files, Path(d, "", n), Path(d, "", n), 1)

\* ------------------------------------------------------------ catalog
EmptyCatalog == [songs |-> << >>, last_updated |-> 0]

\* A record without the thumbnail fields, as catalogs written before the
\* fields existed hold them
Record(p, c) == [file_path |-> p, file_hash |-> c, status |-> "library"]

\* Variant: every record is taken to lack has_thumbnail
LacksThumbnail_Any(song) == TRUE

\* 'has_thumbnail' not in existing_song
LacksThumbnail(song) == "has_thumbnail" \notin DOMAIN song

\* metadata['has_thumbnail'] = thumbnail_extracted, and thumbnail_base64
\* when a thumbnail was extracted: extract_thumbnail returns True for audio
\* that holds a cover ("A" does)
WithThumbnail(song, c) ==
    IF c = "A"
    THEN [k \in DOMAIN song \cup {"has_thumbnail", "thumbnail_base64"} |->
             IF k = "has_thumbnail" THEN TRUE
             ELSE IF k = "thumbnail_base64" THEN c ELSE song[k]]
    ELSE [k \in DOMAIN song \cup {"has_thumbnail"} |->
             IF k = "has_thumbnail" THEN FALSE ELSE song[k]]

\* existing_song['has_thumbnail'] = False
WithoutThumbnail(song) ==
    [k \in DOMAIN song \cup {"has_thumbnail"} |->
        IF k = "has_thumbnail" THEN FALSE ELSE song[k]]

\* The record extract_metadata builds for a file, with its status
Song(p, c) == WithThumbnail(Record(p, c), c)

Range(s) == { s[i] : i \in 1..Len(s) }

\* Variant: last_updated is left as it was
Stamp_Keep(cat, t) == cat

\* save_catalog: last_updated is set first, then the file is written; when
\* the write raises the in-memory catalog keeps the new last_updated
Stamp(cat, t) == [cat EXCEPT !.last_updated = t]

NoMoves == {}

NoPath == Path("none", "", Name("", ""))

\* What a call leaves behind for the properties to read: the call (call,
\* src, content; op is the call again until the user places a file), its
\* result (status), the moves it made, the steps that raised, whether a
\* move replaced an existing file, whether the catalog file was
\* written, the duplicates it found, the number of records it removed,
\* whether the catalog held no record with the file's hash when the call
\* began, and (follows) the status of the call before it when that was an
\* add_music_file of the same bytes that began with no such record.
Idle(op) ==
    [op |-> op, call |-> op, status |-> "none", src |-> NoPath, content |-> "",
     moves |-> NoMoves, raised |-> {}, overwrote |-> FALSE,
     saved |-> FALSE, dups |-> {}, removed |-> 0, fresh |-> FALSE,
     follows |-> "none", new_songs |-> 0, updated_thumbnails |-> 0]

\* The request threads of the server (app.run serves each request in a
\* thread of its own)
Threads == {1, 2}

\* A thread that is not inside a call
IdleThread == [pc |-> "idle", src |-> NoPath, content |-> "", dup |-> FALSE,
               status |-> "none"]

Snapshot(files, cat) == [fs |-> files, catalog |-> cat]

\* No unlock batch has been started
NoBatch == [pc |-> "none"]

\* No decryptor function has been called
NoCodec == [op |-> "none"]

Init ==
    /\ fs = {}
    /\ catalog = EmptyCatalog
    /\ disk = EmptyCatalog
    /\ now = 0
    /\ placed = 0
    /\ faulted = 0
    /\ last = Idle("init")
    /\ threads = [t \in Threads |-> IdleThread]
    /\ batch = NoBatch
    /\ codec = NoCodec
    /\ start = Snapshot({}, EmptyCatalog)

\* Where the user puts files: any of them into New/ (as the upload route's
\* file.save does), those named without a counter into Library/, and a
\* second song.mp3 into a sub-directory of Library/.
Placements ==
    { [dir |-> "New", sub |-> "", name |-> u.name, content |-> u.content] : u \in UserFiles }
    \cup { [dir |-> "Library", sub |-> "", name |-> u.name, content |-> u.content] :
             u \in { v \in UserFiles : v.name.sfx = NoSfx } }
    \cup { [dir |-> "Library", sub |-> "sub", name |-> u.name, content |-> u.content] :
             u \in { v \in UserFiles : v.name = Name("song", "mp3") /\ v.content # "A" } }

\* The user puts a new file where no file is.
PlaceAudio ==
    /\ placed < MaxFiles
    /\ \E f \in Placements :
        /\ ~Exists(fs, PathOf(f))
        /\ fs' = fs \cup {f}
    /\ placed' = placed + 1
    /\ last' = IF last.call = "add" /\ last.fresh
               THEN [Idle("place") EXCEPT !.call = last.call, !.status = last.status,
                                          !.content = last.content, !.fresh = last.fresh]
               ELSE Idle("place")
    /\ UNCHANGED <<catalog, disk, now, faulted, threads, start, batch, codec>>

\* The fault sets of one call: which file-system steps raise in it.
FaultSets == { {}, {"move"}, {"save"}, {"trash"}, {"move", "trash"} }

\* The calls with a fault are counted, up to MaxFaults
Faulty(n, injected) ==
    /\ injected => n < MaxFaults
    /\ faulted' = IF injected THEN n + 1 ELSE n

\* ------------------------------------------------------------ add_music_file
\* Variant: the hash comparison finds nothing
ExactDuplicates_None(cat, c) == {}

\* The records add_music_file collects in exact_duplicates
ExactDuplicates(cat, c) ==
    { i \in 1..Len(cat.songs) : cat.songs[i].file_hash = c }

\* Variant: the stems are compared without lowercasing them
NameDuplicates_CaseSensitive(files, cat, n) ==
    { i \in 1..Len(cat.songs) :
        /\ Exists(files, cat.songs[i].file_path)
        /\ Stem(cat.songs[i].file_path.name) = Stem(n) }

\* The records add_music_file collects in name_duplicates
NameDuplicates(files, cat, n) ==
    { i \in 1..Len(cat.songs) :
        /\ Exists(files, cat.songs[i].file_path)
        /\ NormalizedName(cat.songs[i].file_path.name) = NormalizedName(n) }

\* all_duplicates = exact_duplicates + name_duplicates
AllDuplicates(files, cat, src, c) ==
    ExactDuplicates(cat, c) \cup NameDuplicates(files, cat, src.name)

\* Variant: the library branch leaves the file in New/
LibraryTarget_New(files, n) == Path("New", "", n)

\* Where the library branch moves the file: Library/<name>, as it is
LibraryTarget(files, n) == Path("Library", "", n)

\* The except branch of add_music_file, entered with the files as they are
\* when the exception is caught: the move to Trash/ raises when the source
\* is no longer at file_path ("trash-missing") or when the file system
\* refuses it ("trash").
TrashHandler(files, cat, dsk, src, steps, moves, over, trashFault) ==
    LET trash_path == FreePath(files, "Trash", src.name)
    IN  IF ~Exists(files, src)
        THEN [fs |-> files, catalog |-> cat, disk |-> dsk, status |-> "failed",
              moves |-> moves, raised |-> steps \cup {"trash-missing"},
              overwrote |-> over, saved |-> FALSE]
        ELSE IF trashFault
        THEN [fs |-> files, catalog |-> cat, disk |-> dsk, status |-> "failed",
              moves |-> moves, raised |-> steps \cup {"trash"}, overwrote |-> over,
              saved |-> FALSE]
        ELSE [fs |-> Move(files, src, trash_path), catalog |-> cat, disk |-> dsk,
              status |-> "trash",
              moves |-> moves \cup {MoveRec(files, src, trash_path)},
              raised |-> steps, overwrote |-> over, saved |-> FALSE]

\* add_music_file(file_path) as one call at time t; faults says which of the
\* file-system steps raise in this call.
AddMusicFileResult(files, cat, dsk, t, src, faults) ==
    LET f == FileAt(files, src)
        all_duplicates == AllDuplicates(files, cat, src, f.content)
        duplicate_path == FreePath(files, "Duplicate", src.name)
        library_path == LibraryTarget(files, src.name)
        moved == Move(files, src, library_path)
        appended == [cat EXCEPT !.songs = Append(@, Song(library_path, f.content))]
        libMove == {MoveRec(files, src, library_path)}
        trashFault == "trash" \in faults
    IN  IF ~Readable(f.content)
        THEN TrashHandler(files, cat, dsk, src, {"metadata"}, NoMoves, FALSE, trashFault)
        ELSE IF all_duplicates # {}
        THEN IF "move" \in faults
             THEN TrashHandler(files, cat, dsk, src, {"move"}, NoMoves, FALSE, trashFault)
             ELSE [fs |-> Move(files, src, duplicate_path), catalog |-> cat, disk |-> dsk,
                   status |-> "duplicate",
                   moves |-> {MoveRec(files, src, duplicate_path)},
                   raised |-> {}, overwrote |-> FALSE, saved |-> FALSE]
        ELSE IF "move" \in faults
        THEN TrashHandler(files, cat, dsk, src, {"move"}, NoMoves, FALSE, trashFault)
        ELSE IF "save" \in faults
        THEN TrashHandler(moved, Stamp(appended, t), dsk, src, {"save"}, libMove,
                          Exists(files, library_path), trashFault)
        ELSE [fs |-> moved, catalog |-> Stamp(appended, t), disk |-> Stamp(appended, t),
              status |-> "library", moves |-> libMove, raised |-> {},
              overwrote |-> Exists(files, library_path), saved |-> TRUE]

\* The clock after a call: a call that stamped the catalog read a later time
Clock(cat, t) == IF cat.last_updated > t THEN cat.last_updated ELSE t

\* One request that calls manager.add_music_file on a file of New/.  A step
\* raises only in a call that reaches it.
AddMusicFile ==
    \E f \in InDir(fs, "New"), faults \in FaultSets :
        /\ Faulty(faulted, faults # {})
        /\ \E r \in {AddMusicFileResult(fs, catalog, disk, now + 1, PathOf(f), faults)} :
            /\ faults \subseteq r.raised
            /\ r.catalog.last_updated <= MaxTime
            /\ fs' = r.fs
            /\ catalog' = r.catalog
            /\ disk' = r.disk
            /\ now' = Clock(r.catalog, now)
            /\ last' = [op |-> "add", call |-> "add", status |-> r.status, src |-> PathOf(f),
                        content |-> f.content, moves |-> r.moves, raised |-> r.raised,
                        overwrote |-> r.overwrote, saved |-> r.saved,
                        dups |-> { catalog.songs[i] :
                                     i \in AllDuplicates(fs, catalog, PathOf(f), f.content) },
                        removed |-> 0,
                        fresh |-> ExactDuplicates(catalog, f.content) = {},
                        follows |-> IF last.call = "add" /\ last.content = f.content /\ last.fresh
                                    THEN last.status ELSE "none",
                        new_songs |-> 0, updated_thumbnails |-> 0]
            /\ UNCHANGED <<placed, threads, start, batch, codec>>

\* ------------------------------------------------------------ rglob
\* The supported-format files that library_path.rglob('*') yields
MusicFiles(files) ==
    { PathOf(f) : f \in { g \in files : g.dir = "Library" /\ g.name.ext \in supported_formats } }

\* The orders in which rglob may yield them: the directory order is the
\* file system's, not the program's
RECURSIVE Orders(_)
Orders(S) ==
    IF S = {} THEN { << >> }
    ELSE UNION { { <<p>> \o ord : ord \in Orders(S \ {p}) } : p \in S }

\* ------------------------------------------------------------ scan_library
\* Variant: no file is found in the catalog
InCatalog_Never(cat, p) == FALSE

\* "Check if already in catalog"
InCatalog(cat, p) == \E i \in 1..Len(cat.songs) : cat.songs[i].file_path = p

\* existing_index: the first record with this file_path
ExistingIndex(songs, p) ==
    CHOOSE i \in 1..Len(songs) :
        /\ songs[i].file_path = p
        /\ \A j \in 1..(i - 1) : songs[j].file_path # p

\* "Update existing entry with thumbnail info if missing": nothing for a
\* record that has the field; else has_thumbnail is False when reading the
\* thumbnail raises, the record stays as it is when mutagen.File returns
\* None, and it gets the thumbnail fields otherwise
RefreshThumbnail(acc, file_path, c, thumbFault) ==
    LET i == ExistingIndex(acc.songs, file_path)
    IN  IF ~LacksThumbnail(acc.songs[i]) THEN acc
        ELSE IF thumbFault
        THEN [acc EXCEPT !.songs[i] = WithoutThumbnail(@),
                         !.raised = @ \cup {"thumbnail"}]
        ELSE IF ~Readable(c) THEN acc
        ELSE [acc EXCEPT !.songs[i] = WithThumbnail(@, c),
                         !.updated_thumbnails = @ + 1]

\* The for loop of scan_library from the i-th file on.  acc carries the
\* files, the records, new_songs and the moves made so far.
RECURSIVE ScanLoop(_, _, _, _, _)
ScanLoop(ord, i, cat, acc, faults) ==
    IF i > Len(ord) THEN acc
    ELSE LET file_path == ord[i]
             f == FileAt(acc.fs, file_path)
             trash_path == FreePath(acc.fs, "Trash", file_path.name)
         IN  IF InCatalog(cat, file_path)
             THEN ScanLoop(ord, i + 1, cat,
                           RefreshThumbnail(acc, file_path, f.content, "thumbnail" \in faults),
                           faults)
             ELSE IF Readable(f.content)
             THEN ScanLoop(ord, i + 1, cat,
                           [acc EXCEPT !.new_songs = Append(@, Song(file_path, f.content))],
                           faults)
             ELSE IF "trash" \in faults
             THEN ScanLoop(ord, i + 1, cat,
                           [acc EXCEPT !.raised = @ \cup {"metadata", "trash"}], faults)
             ELSE ScanLoop(ord, i + 1, cat,
                           [acc EXCEPT !.fs = Move(@, file_path, trash_path),
                                       !.moves = @ \cup {MoveRec(acc.fs, file_path, trash_path)},
                                       !.raised = @ \cup {"metadata"}],
                           faults)

\* scan_library() as one call at time t, rglob yielding the files as ord
ScanLibraryResult(files, cat, dsk, t, ord, faults) ==
    LET done == ScanLoop(ord, 1, cat,
                         [fs |-> files, songs |-> cat.songs, new_songs |-> << >>,
                          moves |-> NoMoves, raised |-> {}, updated_thumbnails |-> 0],
                         faults)
        extended == Stamp([cat EXCEPT !.songs = done.songs \o done.new_songs], t)
    IN  IF "save" \in faults
        THEN [fs |-> done.fs, catalog |-> extended, disk |-> dsk, status |-> "error",
              moves |-> done.moves, raised |-> done.raised \cup {"save"},
              new_songs |-> Len(done.new_songs), saved |-> FALSE,
              updated_thumbnails |-> done.updated_thumbnails]
        ELSE [fs |-> done.fs, catalog |-> extended, disk |-> extended, status |-> "ok",
              moves |-> done.moves, raised |-> done.raised,
              new_songs |-> Len(done.new_songs), saved |-> TRUE,
              updated_thumbnails |-> done.updated_thumbnails]

\* One request that calls manager.scan_library().  A step raises only in a
\* call that reaches it: reading a thumbnail for a record that lacks
\* has_thumbnail, the move to Trash/ for a file mutagen cannot read
ScanLibrary ==
    \E ord \in Orders(MusicFiles(fs)), faults \in { {}, {"save"}, {"trash"}, {"thumbnail"} } :
        /\ now < MaxTime
        /\ Faulty(faulted, faults # {})
        /\ \E r \in {ScanLibraryResult(fs, catalog, disk, now + 1, ord, faults)} :
            /\ faults \subseteq r.raised
            /\ fs' = r.fs
            /\ catalog' = r.catalog
            /\ disk' = r.disk
            /\ now' = now + 1
            /\ last' = [Idle("scan") EXCEPT !.status = r.status, !.moves = r.moves,
                                            !.raised = r.raised, !.saved = r.saved,
                                            !.new_songs = r.new_songs,
                                            !.updated_thumbnails = r.updated_thumbnails]
            /\ UNCHANGED <<placed, threads, start, batch, codec>>

\* ------------------------------------------------------------ check_duplicates_in_library
\* name_groups[normalized_name]: the files of one group, in the order found
Group(ord, key) ==
    SelectSeq(ord, LAMBDA p : NormalizedName(p.name) = key)

\* Variant: only rule 1 is applied
IsDuplicateGroup_FormatsOnly(files) ==
    /\ Len(files) > 1
    /\ Cardinality({ files[i].name.ext : i \in 1..Len(files) }) > 1

\* "Rule 1: same name but different format; Rule 2: same name but
\* different uppercase and lowercase", for a group of more than one file
IsDuplicateGroup(files) ==
    /\ Len(files) > 1
    /\ \/ Cardinality({ files[i].name.ext : i \in 1..Len(files) }) > 1
       \/ Cardinality({ Stem(files[i].name) : i \in 1..Len(files) }) > 1

\* The files the move loop visits, in its order: name_groups keeps the order
\* in which each normalized name first appeared, a group the order of its files
RECURSIVE GroupedFrom(_, _, _)
GroupedFrom(ord, i, seen) ==
    IF i > Len(ord) THEN << >>
    ELSE LET key == NormalizedName(ord[i].name)
         IN  IF key \in seen THEN GroupedFrom(ord, i + 1, seen)
             ELSE (IF IsDuplicateGroup(Group(ord, key)) THEN Group(ord, key) ELSE << >>)
                      \o GroupedFrom(ord, i + 1, seen \cup {key})

\* Variant: the records of a moved file stay
RemoveSong_Keep(cat, p) == cat

\* The catalog without the records of a moved file
RemoveSong(cat, p) ==
    [cat EXCEPT !.songs = SelectSeq(@, LAMBDA song : song.file_path # p)]

\* The move loop over the files of the duplicate groups; the move of the
\* file at failing raises and leaves file and record as they are
RECURSIVE MoveLoop(_, _, _, _)
MoveLoop(todo, i, acc, failing) ==
    IF i > Len(todo) THEN acc
    ELSE LET file_path == todo[i]
             duplicate_path == FreePath(acc.fs, "Duplicate", file_path.name)
         IN  IF file_path = failing
             THEN MoveLoop(todo, i + 1, [acc EXCEPT !.raised = @ \cup {"move"}], failing)
             ELSE MoveLoop(todo, i + 1,
                           [acc EXCEPT !.fs = Move(@, file_path, duplicate_path),
                                       !.moves = @ \cup {MoveRec(acc.fs, file_path, duplicate_path)},
                                       !.catalog = RemoveSong(@, file_path)],
                           failing)

\* check_duplicates_in_library() as one call at time t; the move of the file
\* at failing raises (NoPath: none does), saveFault: save_catalog raises
CheckDuplicatesResult(files, cat, dsk, t, ord, failing, saveFault) ==
    LET done == MoveLoop(GroupedFrom(ord, 1, {}), 1,
                         [fs |-> files, catalog |-> cat, moves |-> NoMoves, raised |-> {}],
                         failing)
    IN  IF done.moves = NoMoves
        THEN [fs |-> done.fs, catalog |-> done.catalog, disk |-> dsk, status |-> "ok",
              moves |-> done.moves, raised |-> done.raised, saved |-> FALSE]
        ELSE IF saveFault
        THEN [fs |-> done.fs, catalog |-> Stamp(done.catalog, t), disk |-> dsk,
              status |-> "error", moves |-> done.moves,
              raised |-> done.raised \cup {"save"}, saved |-> FALSE]
        ELSE [fs |-> done.fs, catalog |-> Stamp(done.catalog, t),
              disk |-> Stamp(done.catalog, t), status |-> "ok",
              moves |-> done.moves, raised |-> done.raised, saved |-> TRUE]

\* One request that calls manager.check_duplicates_in_library().
CheckDuplicates ==
    \E ord \in Orders(MusicFiles(fs)) :
    \E failing \in Range(GroupedFrom(ord, 1, {})) \cup {NoPath}, saveFault \in BOOLEAN :
        /\ failing # NoPath => ~saveFault
        /\ Faulty(faulted, failing # NoPath \/ saveFault)
        /\ \E r \in {CheckDuplicatesResult(fs, catalog, disk, now + 1, ord, failing, saveFault)} :
            /\ saveFault => "save" \in r.raised
            /\ r.catalog.last_updated <= MaxTime
            /\ fs' = r.fs
            /\ catalog' = r.catalog
            /\ disk' = r.disk
            /\ now' = Clock(r.catalog, now)
            /\ last' = [Idle("check") EXCEPT !.status = r.status, !.moves = r.moves,
                                             !.raised = r.raised, !.saved = r.saved,
                                             !.removed = Len(catalog.songs) - Len(r.catalog.songs)]
            /\ UNCHANGED <<placed, threads, start, batch, codec>>

Next == PlaceAudio \/ AddMusicFile \/ ScanLibrary \/ CheckDuplicates

Spec == Init /\ [][Next]_vars

\* ------------------------------------------------------------ a loaded catalog
\* The manager starts from a catalog file written by an earlier run:
\* Library/ holds files, some with a record; a record may lack the
\* thumbnail fields, hold has_thumbnail = False after a thumbnail could not
\* be read, or be as extract_metadata builds it.  One file may wait in New/.

\* Number of files Library/ holds when the catalog is loaded.
MaxLoaded == 2

\* The file that may wait in New/ is the audio with a cover, under either
\* of its names
LoadedInit ==
    /\ \E library \in SUBSET InDir(Placements, "Library"),
          new \in { n \in SUBSET { f \in InDir(Placements, "New") :
                                     f.content = "A" /\ f.name.sfx = NoSfx } :
                      Cardinality(n) <= 1 } :
        /\ Cardinality(library) <= MaxLoaded
        /\ \A f, g \in library : PathOf(f) = PathOf(g) => f = g
        /\ \E recorded \in SUBSET { PathOf(f) : f \in library } :
           \E ord \in Orders(recorded), thumbnail \in [recorded -> {"none", "false", "extracted"}] :
              catalog = [songs |-> [i \in 1..Len(ord) |->
                            LET c == FileAt(library, ord[i]).content
                            IN  CASE thumbnail[ord[i]] = "none" -> Record(ord[i], c)
                                  [] thumbnail[ord[i]] = "false" ->
                                         WithoutThumbnail(Record(ord[i], c))
                                  [] OTHER -> Song(ord[i], c)],
                         last_updated |-> 0]
        /\ fs = library \cup new
    /\ disk = catalog
    /\ start = Snapshot(fs, catalog)
    /\ now = 0
    /\ placed = Cardinality(fs)
    /\ faulted = 0
    /\ last = Idle("init")
    /\ threads = [t \in Threads |-> IdleThread]
    /\ batch = NoBatch
    /\ codec = NoCodec

SpecLoaded == LoadedInit /\ [][AddMusicFile \/ ScanLibrary \/ CheckDuplicates]_vars

\* ------------------------------------------------------------ concurrent requests
\* Two upload requests arrive together: their files are in New/ (file.save
\* has run in both), the catalog is empty, and each thread runs
\* manager.add_music_file on its file.  manager is one object shared by all
\* threads and add_music_file takes no lock.
ConcInit ==
    /\ \E f, g \in { h \in Placements : h.dir = "New" } :
        /\ f.name # g.name
        /\ fs = {f, g}
        /\ start = Snapshot({f, g}, EmptyCatalog)
    /\ catalog = EmptyCatalog
    /\ disk = EmptyCatalog
    /\ now = 0
    /\ placed = 2
    /\ faulted = 0
    /\ last = Idle("init")
    /\ threads = [t \in Threads |-> IdleThread]
    /\ batch = NoBatch
    /\ codec = NoCodec

\* The files other threads are working on
Taken == { threads[t].src : t \in Threads }

\* The request calls add_music_file(file_path)
Begin(t) ==
    /\ threads[t].pc = "idle"
    /\ \E f \in InDir(fs, "New") :
        /\ PathOf(f) \notin Taken
        /\ threads' = [threads EXCEPT ![t] = [@ EXCEPT !.pc = "extract", !.src = PathOf(f),
                                                      !.content = f.content]]
    /\ UNCHANGED <<fs, catalog, disk, now, placed, faulted, last, start, batch, codec>>

\* extract_metadata and the two duplicate searches, on the catalog and the
\* files as they are now
Extract(t) ==
    /\ threads[t].pc = "extract"
    /\ threads' = [threads EXCEPT ![t] =
            IF ~Readable(threads[t].content) THEN [@ EXCEPT !.pc = "except"]
            ELSE [@ EXCEPT !.pc = "move",
                           !.dup = AllDuplicates(fs, catalog, threads[t].src,
                                                 threads[t].content) # {}]]
    /\ UNCHANGED <<fs, catalog, disk, now, placed, faulted, last, start, batch, codec>>

\* shutil.move to Duplicate/ (then return) or to Library/
MoveFile(t) ==
    /\ threads[t].pc = "move"
    /\ IF threads[t].dup
       THEN /\ fs' = Move(fs, threads[t].src, FreePath(fs, "Duplicate", threads[t].src.name))
            /\ threads' = [threads EXCEPT ![t] = [@ EXCEPT !.pc = "done", !.status = "duplicate"]]
       ELSE /\ fs' = Move(fs, threads[t].src, LibraryTarget(fs, threads[t].src.name))
            /\ threads' = [threads EXCEPT ![t] = [@ EXCEPT !.pc = "append"]]
    /\ UNCHANGED <<catalog, disk, now, placed, faulted, last, start, batch, codec>>

\* self.catalog['songs'].append(metadata)
AppendSong(t) ==
    /\ threads[t].pc = "append"
    /\ catalog' = [catalog EXCEPT !.songs =
            Append(@, Song(LibraryTarget(fs, threads[t].src.name), threads[t].content))]
    /\ threads' = [threads EXCEPT ![t] = [@ EXCEPT !.pc = "save"]]
    /\ UNCHANGED <<fs, disk, now, placed, faulted, last, start, batch, codec>>

\* self.save_catalog(), then return status=library
SaveCatalog(t) ==
    /\ threads[t].pc = "save"
    /\ catalog' = Stamp(catalog, now + 1)
    /\ disk' = Stamp(catalog, now + 1)
    /\ now' = now + 1
    /\ threads' = [threads EXCEPT ![t] = [@ EXCEPT !.pc = "done", !.status = "library"]]
    /\ UNCHANGED <<fs, placed, faulted, last, start, batch, codec>>

\* The except branch: the move to Trash/, then return status=trash
Except(t) ==
    /\ threads[t].pc = "except"
    /\ fs' = Move(fs, threads[t].src, FreePath(fs, "Trash", threads[t].src.name))
    /\ threads' = [threads EXCEPT ![t] = [@ EXCEPT !.pc = "done", !.status = "trash"]]
    /\ UNCHANGED <<catalog, disk, now, placed, faulted, last, start, batch, codec>>

ConcNext ==
    \E t \in Threads :
        Begin(t) \/ Extract(t) \/ MoveFile(t) \/ AppendSong(t) \/ SaveCatalog(t) \/ Except(t)

SpecConc == ConcInit /\ [][ConcNext]_vars

\* ------------------------------------------------------------ properties
\* The step is one call of add_music_file
AddStep == last'.op = "add"

\* The call moved its file to dir, and the file is there
MovedTo(dir) ==
    \E m \in last.moves :
        /\ m.src = last.src
        /\ m.dst.dir = dir
        /\ Exists(fs, m.dst)
        /\ FileAt(fs, m.dst).content = last.content

\* The records with the hash of the file of the last call
SameHash == { i \in 1..Len(catalog.songs) : catalog.songs[i].file_hash = last.content }

C2_NoFileDestroyed ==
    last.op \in {"add", "scan", "check"} => ~last.overwrote

\* The supported-format files under Library/ that share a lowercased stem
\* with another one
Grouped(p, q) == p # q /\ NormalizedName(p.name) = NormalizedName(q.name)

C4_RecordsInLibrary ==
    /\ \A i \in 1..Len(catalog.songs) :
        /\ catalog.songs[i].file_path.dir = "Library"
        /\ Exists(fs, catalog.songs[i].file_path)
    /\ \A m \in last.moves :
        m.dst.dir \in {"Duplicate", "Trash"} => ~InCatalog(catalog, m.src)

\* C4, the case: a check moved files with records out of Library/ and
\* removed the records
C4_Witness ==
    /\ last.op = "check" /\ last.removed >= 2
    /\ Len(catalog.songs) >= 1

\* C5: after a completed save_catalog no two records share a file_hash.
C5_UniqueHashOnSave ==
    last.saved =>
        \A i, j \in 1..Len(disk.songs) :
            i # j => disk.songs[i].file_hash # disk.songs[j].file_hash

\* The catalog after the step is the catalog before it with one record for
\* the file appended
AppendedOne ==
    /\ Len(catalog'.songs) = Len(catalog.songs) + 1
    /\ SubSeq(catalog'.songs, 1, Len(catalog.songs)) = catalog.songs
    /\ catalog'.songs[Len(catalog'.songs)].file_hash = last'.content

\* C7: add_music_file returns status=library exactly when it appended one
\* record and wrote the catalog holding it; a call that returns trash or
\* failed leaves the in-memory catalog without a new record.
C7_AtomicAppend ==
    [][AddStep =>
        /\ (last'.status = "library") <=> (AppendedOne /\ disk' = catalog')
        /\ last'.status \in {"trash", "failed"} => catalog'.songs = catalog.songs]_vars

DuplicateSet ==
    { song \in Range(catalog.songs) :
        \/ song.file_hash = last'.content
        \/ /\ Exists(fs, song.file_path)
           /\ Lower(song.file_path.name.base) = Lower(last'.src.name.base)
           /\ song.file_path.name.sfx = last'.src.name.sfx }

\* C9: a call that returns status=duplicate changes neither the catalog nor
\* the catalog file nor Library/; it only moves the incoming file into
\* Duplicate/.  The duplicates are the records with the same hash or with an
\* existing file of the same lowercased stem, and a readable file with such
\* duplicates goes nowhere else unless a step raises.
C9_DuplicateFrame ==
    [][AddStep =>
        /\ last'.dups = DuplicateSet
        /\ last'.status = "duplicate" =>
            /\ DuplicateSet # {}
            /\ catalog' = catalog /\ disk' = disk /\ now' = now /\ ~last'.saved
            /\ InDir(fs', "Library") = InDir(fs, "Library")
            /\ \E dst \in { PathOf(f) : f \in InDir(fs', "Duplicate") } :
                /\ ~Exists(fs, dst)
                /\ fs' = Move(fs, last'.src, dst)
        /\ (DuplicateSet # {} /\ Readable(last'.content) /\ last'.raised = {}) =>
            last'.status = "duplicate"]_vars

\* C9, the case: a file went to Duplicate/ for its name alone, its stem
\* differing in case from the stem of a record with another hash
C9_Witness ==
    /\ last.op = "add" /\ last.status = "duplicate"
    /\ last.dups # {}
    /\ \A song \in last.dups :
        /\ song.file_hash # last.content
        /\ song.file_path.name.base # last.src.name.base

\* The target the collision rule names: the name itself when free, else
\* stem(N)suffix for the least N >= 1 that is free
LeastFree(n, taken) ==
    IF n \notin taken THEN n
    ELSE WithCounter(n, CHOOSE k \in 1..(Cardinality(taken) + 1) :
                            /\ WithCounter(n, k) \notin taken
                            /\ \A j \in 1..(k - 1) : WithCounter(n, j) \in taken)

\* C10: every move of add_music_file, scan_library and
\* check_duplicates_in_library goes to a path where no file is, named by
\* the collision rule.
C10_FreshTarget ==
    last.op \in {"add", "scan", "check"} =>
        \A m \in last.moves :
            /\ ~m.existed
            /\ m.dst.name = LeastFree(m.src.name, m.taken)

\* What the two calls leave when one runs after the other: the files and
\* the records, the call on a first
Serial(a, b) ==
    LET r1 == AddMusicFileResult(start.fs, start.catalog, start.catalog, 1, a, {})
        r2 == AddMusicFileResult(r1.fs, r1.catalog, r1.disk, 2, b, {})
    IN  <<r2.fs, r2.catalog.songs>>

AllReturned == \A t \in Threads : threads[t].pc = "done"

\* C6: concurrent calls of add_music_file do not interleave: when both have
\* returned, the files and the catalog are what one of the two serial
\* orders of the calls leaves, and two calls on the same bytes have not both
\* returned status=library.
C6_SerialOutcome ==
    AllReturned =>
        /\ <<fs, catalog.songs>> \in
              { Serial(threads[1].src, threads[2].src), Serial(threads[2].src, threads[1].src) }
        /\ threads[1].content = threads[2].content =>
              ~(threads[1].status = "library" /\ threads[2].status = "library")

\* C11: when Library/ holds a file whose stem equals the incoming file's
\* stem but for case, with a catalog record or without one, a call of
\* add_music_file on a readable file in which no step raises returns
\* status=duplicate and moves the incoming file into Duplicate/.
C11_NameInLibraryToDuplicate ==
    [][(/\ AddStep
        /\ Readable(last'.content)
        /\ last'.raised = {}
        /\ \E f \in InDir(fs, "Library") :
              NormalizedName(f.name) = NormalizedName(last'.src.name)) =>
            /\ last'.status = "duplicate"
            /\ \E m \in last'.moves : m.src = last'.src /\ m.dst.dir = "Duplicate"]_vars

\* The step is one call of add_music_file, scan_library or
\* check_duplicates_in_library
CallStep == last'.op \in {"add", "scan", "check"}

Edges ==
    { <<"New", "Library">>, <<"New", "Duplicate">>, <<"New", "Trash">>,
      <<"Library", "Duplicate">>, <<"Library", "Trash">> }

\* C26: every move of add_music_file, scan_library and
\* check_duplicates_in_library goes from New/ to Library/, Duplicate/ or
\* Trash/, or from Library/ to Duplicate/ or Trash/; no file appears in New/,
\* and the files of Duplicate/ and Trash/ stay where they are.
C26_AcyclicFlow ==
    [][CallStep =>
        /\ \A m \in last'.moves : <<m.src.dir, m.dst.dir>> \in Edges
        /\ \A f \in fs' \ fs :
              /\ f.dir \in {"Library", "Duplicate", "Trash"}
              /\ \E g \in fs \ fs' : g.content = f.content /\ <<g.dir, f.dir>> \in Edges
        /\ InDir(fs, "Duplicate") \subseteq fs'
        /\ InDir(fs, "Trash") \subseteq fs']_vars

\* C26, the case: a scan moved a file from Library/ to Trash/ while
\* Duplicate/ held a file moved there by an earlier call
C26_Witness ==
    /\ last.op = "scan"
    /\ \E m \in last.moves : m.src.dir = "Library" /\ m.dst.dir = "Trash"
    /\ InDir(fs, "Duplicate") # {}

\* new is old with nothing but thumbnail fields added
ThumbnailOnly(old, new) ==
    /\ DOMAIN old \subseteq DOMAIN new
    /\ DOMAIN new \ DOMAIN old \subseteq {"has_thumbnail", "thumbnail_base64"}
    /\ \A k \in DOMAIN old : new[k] = old[k]

\* s is t with some elements left out
RECURSIVE IsSubSeq(_, _)
IsSubSeq(s, t) ==
    IF s = << >> THEN TRUE
    ELSE IF t = << >> THEN FALSE
    ELSE IF Head(s) = Head(t) THEN IsSubSeq(Tail(s), Tail(t))
    ELSE IsSubSeq(s, Tail(t))

\* C27: add_music_file and scan_library keep every record of the catalog as
\* it is, but that scan_library adds thumbnail fields to a record that lacks
\* has_thumbnail; check_duplicates_in_library only removes records, each one
\* the record of a file it moved out of Library/ into Duplicate/.
C27_RecordsFrame ==
    [][CallStep =>
        IF last'.op = "check"
        THEN /\ IsSubSeq(catalog'.songs, catalog.songs)
             /\ \A song \in Range(catalog.songs) \ Range(catalog'.songs) :
                   /\ Exists(fs, song.file_path)
                   /\ ~Exists(fs', song.file_path)
                   /\ \E m \in last'.moves :
                         m.src = song.file_path /\ m.dst.dir = "Duplicate"
        ELSE /\ Len(catalog'.songs) >= Len(catalog.songs)
             /\ \A i \in 1..Len(catalog.songs) :
                   \/ catalog'.songs[i] = catalog.songs[i]
                   \/ /\ last'.op = "scan"
                      /\ "has_thumbnail" \notin DOMAIN catalog.songs[i]
                      /\ ThumbnailOnly(catalog.songs[i], catalog'.songs[i])]_vars

\* C27, the case: a scan gave a record its thumbnail fields and left
\* has_thumbnail = False in the record of a file that holds a cover
C27_Witness ==
    /\ last.op = "scan" /\ last.updated_thumbnails >= 1
    /\ \E i \in 1..Len(catalog.songs) :
          /\ "has_thumbnail" \in DOMAIN catalog.songs[i]
          /\ ~catalog.songs[i].has_thumbnail
          /\ catalog.songs[i].file_hash = "A"
          /\ Exists(fs, catalog.songs[i].file_path)

\* No step of the call raised but the reading of a file mutagen cannot read
Quiet(raised) == raised \subseteq {"metadata"}

RECURSIVE Xor(_, _)
Xor(a, b) ==
    IF a = 0 THEN b
    ELSE IF b = 0 THEN a
    ELSE (((a % 2) + (b % 2)) % 2) + 2 * Xor(a \div 2, b \div 2)

\* a & b on two non-negative integers
RECURSIVE BitAnd(_, _)
BitAnd(a, b) ==
    IF a = 0 \/ b = 0 THEN 0
    ELSE (a % 2) * (b % 2) + 2 * BitAnd(a \div 2, b \div 2)

\* data[:stop] for stop < len(data) or stop negative
SliceTo(data, stop) ==
    IF stop >= 0 THEN SubSeq(data, 1, stop)
    ELSE IF Len(data) + stop > 0 THEN SubSeq(data, 1, Len(data) + stop)
    ELSE << >>

\* struct.unpack('<I', b)[0] for four bytes b.  The top byte is capped at
\* 100 to stay within the checker's integers: the value is only compared
\* with the length of a file, which every value from 2^24 on exceeds alike
UnpackLE32(b) ==
    b[1] + 256 * b[2] + 65536 * b[3] + 16777216 * (IF b[4] > 100 THEN 100 ELSE b[4])

\* ------------------------------------------------------------ QmcMask
QMC_DEFAULT_MASK_MATRIX ==
    << 222,  81, 250, 195,  74, 214, 202, 144,
       126, 103,  94, 247, 213,  82, 132, 216,
        71, 149, 187, 161, 170, 198, 102,  35,
       146,  98, 243, 116, 161, 159, 244, 160,
        29,  63,  91, 240,  19,  14,   9,  61,
       249, 188,   0,  17 >>

\* _generate_128: matrix_128[i] = matrix_44[i % 44] for i in range(128); the
\* model keeps Python's 0-based index as the argument
Generate128(matrix_44) == [i \in 0..127 |-> matrix_44[(i % 44) + 1]]

\* QmcMask(): matrix is None, so the default matrix, of length 44
DefaultMatrix128 == Generate128(QMC_DEFAULT_MASK_MATRIX)

\* Variant: the 44 bytes are used over and over, with no 128-byte period
MaskByte_NoPeriod(byte, cur) == Xor(byte, QMC_DEFAULT_MASK_MATRIX[(cur % 44) + 1])

\* Variant: the key byte is added to the data byte
MaskByte_Add(byte, cur) == (byte + DefaultMatrix128[BitAnd(cur, 127)]) % 256

\* result[cur] ^= self.matrix_128[cur & 0x7f]
MaskByte(byte, cur) == Xor(byte, DefaultMatrix128[BitAnd(cur, 127)])

\* QmcMask().decrypt(data): cur runs over range(len(data))
QmcDecrypt(data) == [n \in 1..Len(data) |-> MaskByte(data[n], n - 1)]

\* ------------------------------------------------------------ _sniff_audio_ext
ID3 == <<73, 68, 51>>
fLaC == <<102, 76, 97, 67>>
OggS == <<79, 103, 103, 83>>
ftyp == <<102, 116, 121, 112>>
RIFF == <<82, 73, 70, 70>>

\* headers, in the order the dict is written and so iterated
Headers ==
    << [header |-> ID3, ext |-> "mp3"], [header |-> fLaC, ext |-> "flac"],
       [header |-> OggS, ext |-> "ogg"], [header |-> ftyp, ext |-> "m4a"],
       [header |-> RIFF, ext |-> "wav"] >>

\* data[offset:offset+len(header)] == header, offset counted from 0
HasAt(data, offset, header) ==
    /\ Len(data) >= offset + Len(header)
    /\ SubSeq(data, offset + 1, offset + Len(header)) = header

\* data.startswith(header), or len(data) > 4 and data[4:4+len(header)] == header
HeaderMatches(data, header) ==
    \/ HasAt(data, 0, header)
    \/ Len(data) > 4 /\ HasAt(data, 4, header)

\* The loop over headers from the i-th on, then the fallback
RECURSIVE SniffFrom(_, _, _)
SniffFrom(data, fallback_ext, i) ==
    IF i > Len(Headers) THEN fallback_ext
    ELSE IF HeaderMatches(data, Headers[i].header) THEN Headers[i].ext
    ELSE SniffFrom(data, fallback_ext, i + 1)

SniffAudioExt(data, fallback_ext) == SniffFrom(data, fallback_ext, 1)

\* ------------------------------------------------------------ artwork
\* What the cover service, the download and the tag library do in one
\* call.  query: query_cover_image raises inside ("raises"), finds no cover
\* ("none") or returns a url ("url").  download: requests.get or
\* raise_for_status raises ("raises"), the content type is not an image
\* ("badtype"), the resize of a large image raises ("resize"), or the image
\* is returned ("ok").  mutagen: MUTAGEN_AVAILABLE.  embed: the temporary
\* file cannot be created ("tempfile"), loading the tags raises ("load"),
\* saving them raises ("save"), or the tags are written ("ok").
Arts ==
    [query : {"raises", "none", "url"}, download : {"raises", "badtype", "resize", "ok"},
     mutagen : BOOLEAN, embed : {"tempfile", "load", "save", "ok"}]

\* query_cover_image: every exception is caught and None returned
QueryCoverImage(art) == art.query = "url"

\* download_and_process_image: every exception is caught and None returned
DownloadAndProcessImage(art) == art.download = "ok"

\* The bytes mutagen saves: for mp3 an ID3 tag with the APIC frame in
\* front of the audio, for flac a PICTURE block (type 6) after the marker
Tagged(audio_data, ext) ==
    IF ext = "mp3" THEN ID3 \o <<65, 80, 73, 67>> \o audio_data
    ELSE SubSeq(audio_data, 1, 4) \o <<6>> \o SubSeq(audio_data, 5, Len(audio_data))

\* Variant: a failure to embed raises
EmbedArtwork_Raise(audio_data, ext, art) ==
    IF art.mutagen /\ art.embed = "ok" /\ (ext = "flac" => HasAt(audio_data, 0, fLaC))
    THEN [data |-> Tagged(audio_data, ext), temp |-> 0]
    ELSE [data |-> << >>, temp |-> 0]

\* embed_artwork_to_flac and embed_artwork_to_mp3: the bytes returned and
\* the number of temporary files left.  The file is created with
\* delete=False and unlinked after the tags were saved and read back; an
\* exception before that is caught and audio_data returned.  FLAC() raises
\* on bytes that do not start with the fLaC marker.
EmbedArtwork(audio_data, ext, art) ==
    IF ~art.mutagen THEN [data |-> audio_data, temp |-> 0]
    ELSE IF art.embed = "tempfile" THEN [data |-> audio_data, temp |-> 0]
    ELSE IF art.embed \in {"load", "save"} THEN [data |-> audio_data, temp |-> 1]
    ELSE IF ext = "flac" /\ ~HasAt(audio_data, 0, fLaC) THEN [data |-> audio_data, temp |-> 1]
    ELSE [data |-> Tagged(audio_data, ext), temp |-> 0]

\* "if cover_data: if ext == 'flac': ... elif ext == 'mp3': ...";
\* embedded tells whether the bytes were changed
EmbedIfCover(audio_data, ext, cover, art) ==
    IF cover /\ ext \in {"flac", "mp3"}
    THEN LET r == EmbedArtwork(audio_data, ext, art)
         IN  [data |-> r.data, temp |-> r.temp, embedded |-> r.data # audio_data]
    ELSE [data |-> audio_data, temp |-> 0, embedded |-> FALSE]

\* ------------------------------------------------------------ decrypt_qmc
\* qmc_formats.get(file_ext, 'mp3'), for the extensions the model uses
ExpectedFormat(file_ext) ==
    CASE file_ext \in {"qmcflac", "mflac"} -> "flac"
      [] file_ext = "mgg" -> "ogg"
      [] OTHER -> "mp3"

\* What decrypt_qmc does with the bytes of the file: for mgg and mflac the
\* last four bytes give key_len and the audio is file_data[:key_pos]; for
\* the others it is the whole file.  The mask is QmcMask() in both cases
\* (an instance is always true, so "if not qmc_mask" never raises).  The
\* title comes from the file name; with a title the cover is queried and
\* downloaded, and embedded when the format is flac or mp3.
DecryptQmc(file_ext, file_data, art) ==
    LET keyed == file_ext \in {"mgg", "mflac"}
        key_len == UnpackLE32(SubSeq(file_data, Len(file_data) - 3, Len(file_data)))
        key_pos == Len(file_data) - 4 - key_len
        audio_data == IF keyed THEN SliceTo(file_data, key_pos) ELSE file_data
        decrypted_data == QmcDecrypt(audio_data)
        ext == SniffAudioExt(decrypted_data, ExpectedFormat(file_ext))
        cover == QueryCoverImage(art) /\ DownloadAndProcessImage(art)
        e == EmbedIfCover(decrypted_data, ext, cover, art)
    IN  IF keyed /\ Len(file_data) < 4
        THEN [raised |-> "struct.error", audio_data |-> << >>, decrypted |-> << >>,
              data |-> << >>, ext |-> "", picture |-> FALSE, embedded |-> FALSE, temp |-> 0]
        ELSE [raised |-> "none", audio_data |-> audio_data, decrypted |-> decrypted_data,
              data |-> e.data, ext |-> ext, picture |-> cover, embedded |-> e.embedded,
              temp |-> e.temp]

\* ------------------------------------------------------------ decrypt_ncm
\* An NCM file as decrypt_ncm reads it.  magic: the file starts with
\* MAGIC_HEADER.  key_len: the four bytes at offset 10.  key_block: what
\* AES-ECB with CORE_KEY and the PKCS7 unpadder make of the key_len bytes
\* that follow: valid is whether they decrypt and unpad, text the plain text
\* (17 bytes of preamble, then the key).  meta: "none" for a metadata
\* length of 0, "plain" for metadata without albumPic, "albumPic" for
\* metadata with one, "bad" for metadata that does not decrypt or parse.
\* audio: the bytes from the audio offset on.
Container(magic, key_len, valid, text, meta, audio) ==
    [magic |-> magic, key_len |-> key_len, key_block |-> [valid |-> valid, text |-> text],
     meta |-> meta, audio |-> audio]

\* plain_text[17:]
Skip17(plain_text) == SubSeq(plain_text, 18, Len(plain_text))

\* get_key_data: the exception it raises or "none", and the key.  With
\* key_len = 0 the cipher text is empty, AES returns no bytes and the
\* unpadder's finalize raises ValueError.
GetKeyData(c) ==
    IF c.key_len = 0 \/ ~c.key_block.valid
    THEN [raised |-> "ValueError", key_data |-> << >>]
    ELSE [raised |-> "none", key_data |-> Skip17(c.key_block.text)]

\* One pass of the first loop of get_key_box, on the box and j: j = (box[i]
\* + j + key_data[i % key_data_len]) & 0xff; box[i], box[j] = box[j],
\* box[i].  box[i] of the code is the element i + 1 of the sequence
ScheduleOne(st, key_data, i) ==
    LET j2 == BitAnd(st.box[i + 1] + st.j + key_data[(i % Len(key_data)) + 1], 255)
    IN  [box |-> [st.box EXCEPT ![i + 1] = st.box[j2 + 1], ![j2 + 1] = st.box[i + 1]],
         j |-> j2]

\* The passes for i from lo to hi: those up to the middle of the range,
\* then, from the box and the j they leave (j is a byte), the others
RECURSIVE ScheduleRange(_, _, _, _)
ScheduleRange(st, key_data, lo, hi) ==
    IF lo = hi THEN ScheduleOne(st, key_data, lo)
    ELSE LET mid == (lo + hi) \div 2
             half == ScheduleRange(st, key_data, lo, mid)
         IN  IF half.j \in 0..255 THEN ScheduleRange(half, key_data, mid + 1, hi)
             ELSE half

\* Variant: the entry is taken at i, not at i + 1
BoxEntry_NoShift(box, i) ==
    LET si == box[i + 1]
        sj == box[BitAnd(i + si, 255) + 1]
    IN  box[BitAnd(si + sj, 255) + 1]

\* The body of the second loop of get_key_box: i = (i + 1) & 0xff; si =
\* box[i]; sj = box[(i + si) & 0xff]; box[(si + sj) & 0xff]
BoxEntry(box, i) ==
    LET i1 == BitAnd(i + 1, 255)
        si == box[i1 + 1]
        sj == box[BitAnd(i1 + si, 255) + 1]
    IN  box[BitAnd(si + sj, 255) + 1]

\* The second loop of get_key_box, for i from lo to hi
RECURSIVE BoxEntries(_, _, _)
BoxEntries(box, lo, hi) ==
    IF lo = hi THEN << BoxEntry(box, lo) >>
    ELSE LET mid == (lo + hi) \div 2
         IN  BoxEntries(box, lo, mid) \o BoxEntries(box, mid + 1, hi)

\* get_key_box for a key that is not empty: box = list(range(256)), the
\* schedule, then the 256 entries of result (entry i is element i + 1)
KeyBox(key_data) ==
    BoxEntries(ScheduleRange([box |-> [i \in 1..256 |-> i - 1], j |-> 0],
                             key_data, 0, 255).box,
               0, 255)

\* The exception get_key_box raises, or "none": that of get_key_data, and
\* ZeroDivisionError from i % key_data_len for an empty key
GetKeyBoxRaised(c) ==
    LET k == GetKeyData(c)
    IN  IF k.raised # "none" THEN k.raised
        ELSE IF Len(k.key_data) = 0 THEN "ZeroDivisionError"
        ELSE "none"

\* get_audio: audio_data[i] ^= key_box[i & 0xff] for every i, the byte at i
\* being the element i + 1
GetAudio(key_box, audio) ==
    [n \in 1..Len(audio) |-> Xor(audio[n], key_box[BitAnd(n - 1, 255) + 1])]

\* Variant: only the magic header is checked
NcmRaised_MagicOnly(c) == IF ~c.magic THEN "ValueError" ELSE "none"

\* The exception decrypt_ncm raises before the artwork, or "none": the
\* magic header, get_key_box, get_meta_data
NcmRaised(c) ==
    IF ~c.magic THEN "ValueError"
    ELSE IF GetKeyBoxRaised(c) # "none" THEN GetKeyBoxRaised(c)
    ELSE IF c.meta = "bad" THEN "ValueError"
    ELSE "none"

\* decrypt_ncm up to the audio: the key box, get_audio and the format of
\* the audio
NcmAudioData(c) ==
    IF NcmRaised(c) # "none"
    THEN [raised |-> NcmRaised(c), key_box |-> << >>, audio_data |-> << >>, ext |-> ""]
    ELSE LET key_box == KeyBox(GetKeyData(c).key_data)
             audio_data == GetAudio(key_box, c.audio)
         IN  [raised |-> "none", key_box |-> key_box, audio_data |-> audio_data,
              ext |-> SniffAudioExt(audio_data, "mp3")]

\* The rest of decrypt_ncm: the cover named by albumPic is downloaded and
\* embedded, and the DecryptResult is built
NcmResult(c, a, art) ==
    LET cover == c.meta = "albumPic" /\ DownloadAndProcessImage(art)
        e == EmbedIfCover(a.audio_data, a.ext, cover, art)
    IN  IF a.raised # "none"
        THEN [raised |-> a.raised, audio_data |-> << >>, decrypted |-> << >>,
              data |-> << >>, ext |-> "", picture |-> FALSE, embedded |-> FALSE,
              temp |-> 0]
        ELSE [raised |-> "none", audio_data |-> c.audio, decrypted |-> a.audio_data,
              data |-> e.data, ext |-> a.ext, picture |-> cover, embedded |-> e.embedded,
              temp |-> e.temp]

\* ------------------------------------------------------------ decryptor calls
\* The byte strings the decryptor functions are called on
Pad4 == <<0, 0, 0, 0>>

Signatures ==
    { ID3, fLaC, OggS, ftyp, RIFF, <<255, 251>>, <<255, 243>>, <<255, 241>>, <<255, 249>> }

\* Headers of audio files: a signature alone, followed by eight bytes, or
\* after four bytes; RIFF with and without WAVE at 8; RIFF with ftyp at 4
AudioHeaders ==
    { sig : sig \in Signatures }
    \cup { sig \o Pad4 \o Pad4 : sig \in Signatures }
    \cup { Pad4 \o sig : sig \in Signatures }
    \cup { RIFF \o Pad4 \o <<87, 65, 86, 69>>, RIFF \o ftyp \o Pad4 }

\* Short strings over a few bytes
ShortData ==
    { << >> } \cup { <<a>> : a \in {0, 1, 255} } \cup { <<a, b>> : a, b \in {0, 1, 255} }

\* Strings longer than the 128-byte mask
LongData ==
    { [i \in 1..n |-> a] : n \in {128, 130}, a \in {0, 255} }
    \cup { [i \in 1..130 |-> i] }

\* An mgg/mflac file: audio, key, and the length of the key in four bytes
KeyedFile(audio, key) == audio \o key \o <<Len(key), 0, 0, 0>>

KeyedData ==
    { KeyedFile(audio, key) :
        audio \in { << >>, <<1>>, QmcDecrypt(OggS \o Pad4), QmcDecrypt(fLaC \o Pad4) },
        key \in { << >>, <<7>>, <<7, 9>> } }
    \cup { <<1, 2, 200, 0, 0, 0>> }

CodecData ==
    AudioHeaders \cup { QmcDecrypt(h) : h \in AudioHeaders } \cup ShortData
        \cup LongData \cup KeyedData

CodecExts == {"qmc0", "qmcflac", "mgg", "mflac"}

\* "neteasecloudmusic", the 17 bytes in front of the key
Preamble ==
    <<110, 101, 116, 101, 97, 115, 101, 99, 108, 111, 117, 100, 109, 117, 115, 105, 99>>

\* A well-formed NCM file with this key, metadata and audio
NcmFile(key, meta, plain) ==
    Container(TRUE, 128, TRUE, Preamble \o key, meta, GetAudio(KeyBox(key), plain))

\* A file without the key box: no magic header, a key length of 0, a key
\* block that does not unpad, a key block with the preamble only or with
\* less, and metadata that does not parse
NoContainer == Container(FALSE, 0, FALSE, << >>, "none", << >>)

MalformedNcm ==
    { NoContainer,
      Container(TRUE, 0, TRUE, Preamble \o <<1>>, "none", <<1, 2>>),
      Container(TRUE, 16, FALSE, << >>, "none", <<1, 2>>),
      Container(TRUE, 32, TRUE, Preamble, "none", <<1, 2>>),
      Container(TRUE, 16, TRUE, <<1, 2>>, "none", <<1, 2>>),
      Container(TRUE, 128, TRUE, Preamble \o <<1>>, "bad", <<1, 2>>) }

\* The NCM files: well-formed ones with keys of one, three and five bytes
\* and audio that is empty, starts with a header or is longer than the key
\* box, and the malformed ones
NcmData ==
    { NcmFile(key, meta, plain) :
        key \in { <<1>>, <<1, 2, 3>>, <<200, 17, 5, 255, 0>> },
        meta \in {"none", "plain", "albumPic"},
        plain \in { << >>, ID3 \o Pad4 \o Pad4, fLaC \o Pad4 \o Pad4,
                    [i \in 1..258 |-> (7 * i) % 256] } }
    \cup MalformedNcm

\* No artwork outcome has been drawn
NoArt == [query |-> "none", download |-> "raises", mutagen |-> FALSE, embed |-> "tempfile"]

\* The arguments of a call that is about to be made: the bytes and the
\* extension of the file they came from, or the NCM file
CodecInput(data, file_ext) ==
    [op |-> "input", data |-> data, file_ext |-> file_ext, arg |-> << >>, out |-> data,
     times |-> 0, ext |-> "", raised |-> "none", picture |-> FALSE,
     container |-> NoContainer, plain |-> << >>, key_box |-> << >>, art |-> NoArt,
     embedded |-> FALSE, temp |-> 0]

NcmInput(c) == [CodecInput(<< >>, "ncm") EXCEPT !.container = c]

CodecInit ==
    /\ fs = {}
    /\ catalog = EmptyCatalog
    /\ disk = EmptyCatalog
    /\ now = 0
    /\ placed = 0
    /\ faulted = 0
    /\ last = Idle("init")
    /\ threads = [t \in Threads |-> IdleThread]
    /\ start = Snapshot({}, EmptyCatalog)
    /\ batch = NoBatch
    /\ codec \in { CodecInput(data, file_ext) : data \in CodecData, file_ext \in CodecExts }
                    \cup { NcmInput(c) : c \in NcmData }

\* QmcMask().decrypt on the bytes, and then on its own output
CallQmcDecrypt ==
    /\ codec.op \in {"input", "QmcMask.decrypt"}
    /\ codec.file_ext # "ncm"
    /\ codec.times < 2
    /\ codec' = [codec EXCEPT !.op = "QmcMask.decrypt", !.arg = codec.out,
                              !.out = QmcDecrypt(codec.out), !.times = @ + 1]
    /\ UNCHANGED <<fs, catalog, disk, now, placed, faulted, last, threads, start, batch>>

\* _sniff_audio_ext on the bytes, the fallback being the format expected
\* for the extension
CallSniffAudioExt ==
    /\ codec.op = "input"
    /\ codec.file_ext # "ncm"
    /\ codec' = [codec EXCEPT !.op = "_sniff_audio_ext", !.arg = codec.data,
                              !.ext = SniffAudioExt(codec.data, ExpectedFormat(codec.file_ext))]
    /\ UNCHANGED <<fs, catalog, disk, now, placed, faulted, last, threads, start, batch>>

\* decrypt_qmc on a file with these bytes and this extension
CallDecryptQmc ==
    /\ codec.op = "input"
    /\ codec.file_ext # "ncm"
    /\ \E art \in Arts :
        LET r == DecryptQmc(codec.file_ext, codec.data, art)
        IN  codec' = [codec EXCEPT !.op = "decrypt_qmc", !.arg = r.audio_data,
                                  !.out = r.data, !.ext = r.ext, !.raised = r.raised,
                                  !.picture = r.picture, !.plain = r.decrypted,
                                  !.art = art, !.embedded = r.embedded, !.temp = r.temp]
    /\ UNCHANGED <<fs, catalog, disk, now, placed, faulted, last, threads, start, batch>>

\* decrypt_ncm is called on an NCM file and runs up to get_audio
CallDecryptNcm ==
    /\ codec.op = "input"
    /\ codec.file_ext = "ncm"
    /\ LET a == NcmAudioData(codec.container)
       IN  codec' = [codec EXCEPT !.op = "get_audio", !.arg = codec.container.audio,
                                  !.plain = a.audio_data, !.ext = a.ext,
                                  !.raised = a.raised, !.key_box = a.key_box]
    /\ UNCHANGED <<fs, catalog, disk, now, placed, faulted, last, threads, start, batch>>

\* decrypt_ncm goes on from get_audio to its end: the artwork, and the
\* DecryptResult or the exception
ReturnDecryptNcm ==
    /\ codec.op = "get_audio"
    /\ \E art \in Arts :
        LET a == [raised |-> codec.raised, key_box |-> codec.key_box,
                  audio_data |-> codec.plain, ext |-> codec.ext]
            r == NcmResult(codec.container, a, art)
        IN  codec' = [codec EXCEPT !.op = "decrypt_ncm", !.arg = r.audio_data,
                                  !.out = r.data, !.ext = r.ext, !.picture = r.picture,
                                  !.plain = r.decrypted, !.art = art,
                                  !.embedded = r.embedded, !.temp = r.temp]
    /\ UNCHANGED <<fs, catalog, disk, now, placed, faulted, last, threads, start, batch>>

\* embed_artwork_to_flac or embed_artwork_to_mp3, by the format expected
\* for the extension, on the bytes and a cover
CallEmbedArtwork ==
    /\ codec.op = "input"
    /\ ExpectedFormat(codec.file_ext) \in {"flac", "mp3"}
    /\ codec.file_ext # "ncm"
    /\ \E art \in { a \in Arts : QueryCoverImage(a) /\ DownloadAndProcessImage(a) } :
        LET r == EmbedArtwork(codec.data, ExpectedFormat(codec.file_ext), art)
        IN  codec' = [codec EXCEPT !.op = "embed_artwork", !.arg = codec.data,
                                  !.out = r.data, !.ext = ExpectedFormat(codec.file_ext),
                                  !.art = art, !.embedded = r.data # codec.data,
                                  !.temp = r.temp]
    /\ UNCHANGED <<fs, catalog, disk, now, placed, faulted, last, threads, start, batch>>

CodecNext ==
    \/ CallQmcDecrypt
    \/ CallSniffAudioExt
    \/ CallDecryptQmc
    \/ CallDecryptNcm
    \/ ReturnDecryptNcm
    \/ CallEmbedArtwork

SpecCodec == CodecInit /\ [][CodecNext]_vars

\* ------------------------------------------------------------ properties of the decryptor functions
\* C16: QmcMask().decrypt returns as many bytes as it is given, and applied
\* to its own output it returns the bytes it started from.
C16_QmcInvolution ==
    codec.op = "QmcMask.decrypt" =>
        /\ Len(codec.out) = Len(codec.arg)
        /\ codec.times = 2 => codec.out = codec.data

\* C16, the case: decrypt applied twice to more than 128 bytes, the first
\* application having changed them
C16_Witness ==
    /\ codec.op = "QmcMask.decrypt" /\ codec.times = 2
    /\ Len(codec.data) > 128
    /\ codec.arg # codec.data
    /\ codec.out = codec.data

\* The key byte the mask uses at position n, counted from 0
SeedByte(n) == QMC_DEFAULT_MASK_MATRIX[((n % 128) % 44) + 1]

\* C17: the byte QmcMask().decrypt returns at position n is the input byte
\* at n XOR seed[(n AND 0x7F) mod 44]; the key byte is the same at
\* positions that are equal modulo 128, whatever the data.
C17_QmcKeyByPosition ==
    codec.op = "QmcMask.decrypt" =>
        /\ \A n \in 0..(Len(codec.arg) - 1) :
              codec.out[n + 1] = Xor(codec.arg[n + 1], SeedByte(n))
        /\ \A n, m \in 0..(Len(codec.arg) - 1) :
              n % 128 = m % 128 =>
                  Xor(codec.out[n + 1], codec.arg[n + 1]) = Xor(codec.out[m + 1], codec.arg[m + 1])

\* C17, the case: a byte beyond position 127 was decrypted with the key
\* byte of position 0, which is not the 129th byte of the repeated seed
C17_Witness ==
    /\ codec.op = "QmcMask.decrypt" /\ codec.times = 1
    /\ Len(codec.arg) > 128
    /\ codec.out[129] = Xor(codec.arg[129], QMC_DEFAULT_MASK_MATRIX[1])
    /\ QMC_DEFAULT_MASK_MATRIX[1] # QMC_DEFAULT_MASK_MATRIX[(128 % 44) + 1]

\* C18: for an mgg or mflac file decrypt_qmc either raises or returns audio
\* that is not the prefix XORed with the default mask (an empty prefix is
\* the same under every mask).
C18_KeyedMaskNotDefault ==
    (codec.op = "decrypt_qmc" /\ codec.file_ext \in {"mgg", "mflac"}) =>
        \/ codec.raised # "none"
        \/ Len(codec.arg) = 0
        \/ codec.out # QmcDecrypt(codec.arg)

\* The signature table: the first row that matches, else the fallback
SniffTable(data, fallback_ext) ==
    IF HasAt(data, 0, ID3) \/ HasAt(data, 0, <<255, 251>>) \/ HasAt(data, 0, <<255, 243>>)
    THEN "mp3"
    ELSE IF HasAt(data, 0, fLaC) THEN "flac"
    ELSE IF HasAt(data, 0, OggS) THEN "ogg"
    ELSE IF HasAt(data, 0, RIFF) /\ HasAt(data, 8, <<87, 65, 86, 69>>) THEN "wav"
    ELSE IF HasAt(data, 4, ftyp) THEN "m4a"
    ELSE IF HasAt(data, 0, <<255, 241>>) \/ HasAt(data, 0, <<255, 249>>) THEN "aac"
    ELSE fallback_ext

\* C20: _sniff_audio_ext returns what the first matching row of the
\* signature table gives, and the fallback extension when none matches.
C20_SniffFirstRow ==
    codec.op = "_sniff_audio_ext" =>
        codec.ext = SniffTable(codec.arg, ExpectedFormat(codec.file_ext))

\* The table of the NCM key stream for a key: S starts as the identity
\* and is scheduled by j = (S[i] + j + key[i mod keyLen]) mod 256 with a swap
\* of S[i] and S[j]; S[i] is the element i + 1 of the sequence
TableOne(st, key, i) ==
    LET j == (st.S[i + 1] + st.j + key[(i % Len(key)) + 1]) % 256
    IN  [S |-> [st.S EXCEPT ![i + 1] = st.S[j + 1], ![j + 1] = st.S[i + 1]], j |-> j]

RECURSIVE TableRange(_, _, _, _)
TableRange(st, key, lo, hi) ==
    IF lo = hi THEN TableOne(st, key, lo)
    ELSE LET mid == (lo + hi) \div 2
             half == TableRange(st, key, lo, mid)
         IN  IF half.j < 256 THEN TableRange(half, key, mid + 1, hi) ELSE half

\* Entry i of the table: k = (i + 1) mod 256, a = S[k], b = S[(k + a) mod
\* 256], and the entry is S[(a + b) mod 256]
TableEntry(S, i) ==
    LET k == (i + 1) % 256
        a == S[k + 1]
        b == S[((k + a) % 256) + 1]
    IN  S[((a + b) % 256) + 1]

KeyStreamTable(key) ==
    LET S == TableRange([S |-> [i \in 1..256 |-> i - 1], j |-> 0], key, 0, 255).S
    IN  [i \in 1..256 |-> TableEntry(S, i - 1)]

\* C25: for a key that is not empty the key box get_key_box builds is the
\* table of the key, and get_audio returns at every position n the byte at
\* n XOR table[n mod 256], so that positions 256 apart use the same entry.
C25_NcmKeyBox ==
    (codec.op = "get_audio" /\ codec.raised = "none") =>
        /\ codec.key_box = KeyStreamTable(Skip17(codec.container.key_block.text))
        /\ Len(codec.plain) = Len(codec.arg)
        /\ \A n \in 0..(Len(codec.arg) - 1) :
              codec.plain[n + 1] = Xor(codec.arg[n + 1], codec.key_box[(n % 256) + 1])
        /\ \A n \in 0..(Len(codec.arg) - 257) :
              Xor(codec.plain[n + 1], codec.arg[n + 1])
                  = Xor(codec.plain[n + 257], codec.arg[n + 257])

\* C25, the case: audio longer than the key box was decrypted with a key of
\* several bytes, the byte at position 256 with entry 0 of the box
C25_Witness ==
    /\ codec.op = "get_audio" /\ codec.raised = "none"
    /\ Len(Skip17(codec.container.key_block.text)) > 1
    /\ Len(codec.arg) > 256
    /\ codec.plain[257] = Xor(codec.arg[257], codec.key_box[1])
    /\ codec.plain # codec.arg

\* The exception a decryptor call raises whatever the artwork does
RaisedWithoutArtwork ==
    IF codec.op = "decrypt_ncm" THEN NcmRaised(codec.container)
    ELSE IF codec.file_ext \in {"mgg", "mflac"} /\ Len(codec.data) < 4 THEN "struct.error"
    ELSE "none"

\* C22: whatever the cover lookup, the download and the embedding do,
\* decrypt_ncm and decrypt_qmc raise only what they raise without artwork,
\* and when no cover was obtained or the embedding failed the bytes they
\* return are the decrypted audio.
C22_ArtworkNeverFatal ==
    codec.op \in {"decrypt_ncm", "decrypt_qmc"} =>
        /\ codec.raised = RaisedWithoutArtwork
        /\ (/\ codec.raised = "none"
            /\ (~codec.picture \/ ~codec.art.mutagen \/ codec.art.embed # "ok")) =>
                codec.out = codec.plain

\* C22, the case: decrypt_ncm obtained a cover for flac audio, saving the
\* tags raised, and the decrypted audio was returned
C22_Witness ==
    /\ codec.op = "decrypt_ncm" /\ codec.raised = "none"
    /\ codec.picture /\ codec.art.mutagen /\ codec.art.embed = "save"
    /\ codec.ext = "flac"
    /\ Len(codec.out) > 0
    /\ codec.out = codec.plain

\* C28: when embed_artwork_to_flac or embed_artwork_to_mp3 has returned, no
\* temporary file of the call is left.
C28_NoTempFileLeft ==
    codec.op = "embed_artwork" => codec.temp = 0

\* ------------------------------------------------------------ encrypted files
\* Number of files the user has put into Unlocked/ before a batch.
MaxUnlocked == 3
\* Number of workers of a batch that end with an exception of their own.
MaxWorkerFaults == 1

\* str.lower() on the extensions the model uses
LowerExt(e) == IF e = "KGM" THEN "kgm" ELSE IF e = "QMC0" THEN "qmc0" ELSE e

\* CONFIG['encrypted_formats'] (the ones the model's names use)
encrypted_formats == {"ncm", "qmc0", "mgg", "xm", "m4a"}

\* The bytes of a file of the unlock pipeline.  form is what the file is:
\* "ncm" a well-formed NCM container, "badpad" a container with the magic
\* header whose key block does not unpad, "nomagic" eight bytes or more
\* that do not start with the magic header, "short" fewer than four bytes,
\* "keylen0" a container with a key length of 0, "nokey" a container whose
\* key block holds the preamble only, "qmc" audio XORed with the default
\* mask.  audio is the format of the
\* audio inside.  bytes tells what was done to them: "original" as the user
\* put them, "decrypted" the output of a handler, "masked" XORed with the
\* default mask without being decrypted by it, "from8" the original from
\* its ninth byte on.
Bytes(form, audio, state) == [form |-> form, audio |-> audio, bytes |-> state]

\* The files the user may have in Unlocked/
UnlockedFiles ==
    { [name |-> Name("a", "ncm"),  content |-> Bytes("ncm", "flac", "original")],
      [name |-> Name("a", "qmc0"), content |-> Bytes("qmc", "flac", "original")],
      [name |-> Name("b", "qmc0"), content |-> Bytes("qmc", "mp3", "original")],
      [name |-> Name("b2", "QMC0"), content |-> Bytes("qmc", "mp3", "original")],
      [name |-> Name("c", "xyz"),  content |-> Bytes("nomagic", "mp3", "original")],
      [name |-> Name("d", "ncm"),  content |-> Bytes("nomagic", "mp3", "original")],
      [name |-> Name("e", "xm"),   content |-> Bytes("nomagic", "mp3", "original")],
      [name |-> Name("f", "m4a"),  content |-> Bytes("nomagic", "mp3", "original")],
      [name |-> Name("g", "ncm"),  content |-> Bytes("short", "mp3", "original")],
      [name |-> Name("h", "KGM"),  content |-> Bytes("nomagic", "mp3", "original")],
      [name |-> Name("i", "uc"),   content |-> Bytes("nomagic", "mp3", "original")],
      [name |-> Name("j", "kgma"), content |-> Bytes("nomagic", "mp3", "original")],
      [name |-> Name("k", "vpr"),  content |-> Bytes("nomagic", "mp3", "original")],
      [name |-> Name("l", "kwm"),  content |-> Bytes("nomagic", "mp3", "original")],
      [name |-> Name("m", "ncm"),  content |-> Bytes("badpad", "mp3", "original")],
      [name |-> Name("p", "ncm"),  content |-> Bytes("keylen0", "mp3", "original")],
      [name |-> Name("q", "ncm"),  content |-> Bytes("nokey", "mp3", "original")],
      [name |-> Name("n", "mgg"),  content |-> Bytes("short", "ogg", "original")],
      [name |-> Name("o", "mgg"),  content |-> Bytes("nomagic", "ogg", "original")] }

\* The signature the bytes start with: the audio's once decrypted, none
\* while encrypted
Signature(c) == IF c.bytes = "decrypted" THEN c.audio ELSE "none"

\* ------------------------------------------------------------ EnhancedUniversalDecryptor
\* Variant: every extension is handled as raw audio
FORMAT_HANDLERS_Raw(file_ext) == "decrypt_raw"

\* FORMAT_HANDLERS.get(file_ext), "none" for an extension not in the table
FORMAT_HANDLERS(file_ext) ==
    CASE file_ext = "ncm" -> "decrypt_ncm"
      [] file_ext = "uc" -> "decrypt_ncm_cache"
      [] file_ext \in {"qmc0", "mgg"} -> "decrypt_qmc"
      [] file_ext \in {"kgm", "kgma", "vpr"} -> "decrypt_kgm"
      [] file_ext = "kwm" -> "decrypt_kwm"
      [] file_ext = "xm" -> "decrypt_xm"
      [] file_ext \in {"mp3", "flac", "m4a"} -> "decrypt_raw"
      [] OTHER -> "none"

\* _sniff_audio_ext on the bytes of a file
SniffContent(c, fallback_ext) ==
    IF Signature(c) = "none" THEN fallback_ext ELSE Signature(c)

\* What a handler returns for a file: the exception it raises ("none" when
\* it returns), and the ext and data of its DecryptResult
Returned(ext, data) == [raised |-> "none", ext |-> ext, data |-> data]

Raised(e) == [raised |-> e, ext |-> "", data |-> Bytes("", "", "")]

\* The NCM container the bytes of a file are
NcmOf(form) ==
    CASE form = "ncm" -> Container(TRUE, 128, TRUE, Preamble \o <<1, 2, 3>>, "plain", <<1, 2>>)
      [] form = "badpad" -> Container(TRUE, 16, FALSE, << >>, "none", <<1, 2>>)
      [] form = "keylen0" -> Container(TRUE, 0, TRUE, Preamble \o <<1>>, "none", <<1, 2>>)
      [] form = "nokey" -> Container(TRUE, 32, TRUE, Preamble, "none", <<1, 2>>)
      [] OTHER -> NoContainer

\* decrypt_ncm on the bytes of a file: the exception of the checks, or the
\* decrypted audio with its format
HandlerNcm(c) ==
    IF NcmRaised(NcmOf(c.form)) # "none" THEN Raised(NcmRaised(NcmOf(c.form)))
    ELSE LET data == Bytes(c.form, c.audio, "decrypted")
         IN  Returned(SniffContent(data, "mp3"), data)

\* decrypt_qmc on the bytes of a file: struct.unpack raises for an mgg file
\* shorter than four bytes; the default mask is applied in every other case
HandlerQmc(file_ext, c) ==
    IF file_ext = "mgg" /\ c.form = "short" THEN Raised("struct.error")
    ELSE LET data == Bytes(c.form, c.audio, IF c.form = "qmc" THEN "decrypted" ELSE "masked")
         IN  Returned(SniffContent(data, ExpectedFormat(file_ext)), data)

\* decrypt_raw: the bytes as they are
HandlerRaw(file_ext, c) == Returned(SniffContent(c, file_ext), c)

\* handler_method(file_path, file_ext)
Handler(handler_name, file_ext, c) ==
    CASE handler_name = "decrypt_ncm" -> HandlerNcm(c)
      [] handler_name = "decrypt_qmc" -> HandlerQmc(file_ext, c)
      [] handler_name = "decrypt_raw" -> HandlerRaw(file_ext, c)
      [] OTHER -> Raised("NotImplementedError")

\* open(path, 'wb').write(data): the file is created or replaced
WriteFile(files, p, data) ==
    { g \in files : PathOf(g) # p }
        \cup { [dir |-> p.dir, sub |-> p.sub, name |-> p.name, content |-> data] }

\* No file was written
NoFile == NoPath

\* Variant: no output_dir is passed, so the directory of the file is used
OutputDir_Parent(file_path, output_dir) == file_path.dir

\* "if output_dir is None: output_dir = os.path.dirname(file_path)": every
\* caller passes a directory
OutputDir(file_path, output_dir) == output_dir

\* EnhancedUniversalDecryptor.decrypt_file(file_path, output_dir): the
\* exception it raises or "none", the handler it selected, the path it
\* wrote, and the files afterwards
EnhancedDecryptFile(files, file_path, output_dir) ==
    LET file_ext == LowerExt(file_path.name.ext)
        handler_name == FORMAT_HANDLERS(file_ext)
        result == Handler(handler_name, file_ext, FileAt(files, file_path).content)
        output_path == Path(OutputDir(file_path, output_dir), "",
                            [file_path.name EXCEPT !.ext = result.ext])
    IN  IF ~Exists(files, file_path)
        THEN [raised |-> "FileNotFoundError", handler |-> "none", file |-> NoFile, fs |-> files]
        ELSE IF handler_name = "none"
        THEN [raised |-> "ValueError", handler |-> "none", file |-> NoFile, fs |-> files]
        ELSE IF result.raised # "none"
        THEN [raised |-> result.raised, handler |-> handler_name, file |-> NoFile, fs |-> files]
        ELSE [raised |-> "none", handler |-> handler_name, file |-> output_path,
              fs |-> WriteFile(files, output_path, result.data)]

\* ------------------------------------------------------------ MusicDecryptor
\* detect_file_format: the extension when it is one of supported_formats,
\* else "unknown"
DetectFileFormat(n) ==
    IF LowerExt(n.ext) \in {"ncm", "qmc0", "mgg", "xm"} THEN LowerExt(n.ext) ELSE "unknown"

\* _detect_audio_format_from_data, without the dot
DetectAudioFormatFromData(c) ==
    IF Signature(c) \in {"mp3", "flac", "ogg"} THEN Signature(c) ELSE "mp3"

\* The simplified decryptors _decrypt_qmc, _decrypt_ncm and
\* _handle_unknown_format for a file of this format: the error of the
\* result or "none", and the data written
Simplified(format_type, c) ==
    CASE format_type = "qmc0" ->
             [error |-> "none",
              data |-> Bytes(c.form, c.audio, IF c.form = "qmc" THEN "decrypted" ELSE "masked")]
      [] format_type = "ncm" ->
             IF c.form = "short"
             THEN [error |-> "NCM decryption failed", data |-> c]
             ELSE [error |-> "none", data |-> Bytes(c.form, c.audio, "from8")]
      [] OTHER -> [error |-> "none", data |-> c]

\* The part of MusicDecryptor.decrypt_file after the enhanced decryptor has
\* raised: the simplified decryptor for the format, the conflict loop in
\* output_dir and the write
Fallback(files, file_path, output_dir) ==
    LET c == FileAt(files, file_path).content
        r == Simplified(DetectFileFormat(file_path.name), c)
        output_filename == [file_path.name EXCEPT !.ext = DetectAudioFormatFromData(r.data)]
        output_path == FreePath(files, output_dir, output_filename)
    IN  IF r.error # "none"
        THEN [success |-> FALSE, error |-> r.error, file |-> NoFile, fs |-> files]
        ELSE [success |-> TRUE, error |-> "none", file |-> output_path,
              fs |-> WriteFile(files, output_path, r.data)]

\* ------------------------------------------------------------ unlock_music_files
\* The file the library holds while files are unlocked, and its record
LibraryFile ==
    [dir |-> "Library", sub |-> "", name |-> Name("song", "mp3"),
     content |-> Bytes("plain", "mp3", "decrypted")]

\* A file that may be in New/ already, with the name a fallback output takes
NewFile ==
    [dir |-> "New", sub |-> "", name |-> Name("d", "mp3"),
     content |-> Bytes("plain", "mp3", "decrypted")]

\* A path the dispatcher may be called on where there is no file
MissingPath == Path("Unlocked", "", Name("z", "ncm"))

\* The result of a worker that has not run yet
NoResult == [success |-> FALSE, file |-> NoPath, error |-> "", moved_to_new |-> FALSE,
             output_file |-> NoFile, raised |-> FALSE]

\* What unlock_single_file returns
Unlocked(file_path, output_file) ==
    [success |-> TRUE, file |-> file_path, error |-> "", moved_to_new |-> TRUE,
     output_file |-> output_file, raised |-> FALSE]

Failed(file_path, error) ==
    [success |-> FALSE, file |-> file_path, error |-> error, moved_to_new |-> FALSE,
     output_file |-> NoFile, raised |-> FALSE]

\* A worker that ended with an exception: future.result() raises it
WorkerRaised(file_path) ==
    [success |-> FALSE, file |-> file_path, error |-> "", moved_to_new |-> FALSE,
     output_file |-> NoFile, raised |-> TRUE]

Future(pc, result) == [pc |-> pc, result |-> result, collected |-> FALSE, enhanced |-> "none"]

\* The response of a call that returned before any file was submitted
EarlyResponse(success) ==
    [success |-> success, processed_files |-> 0, successful_unlocks |-> 0,
     failed_unlocks |-> 0, moved_to_new |-> 0, failed_files |-> << >>]

\* The state of unlock_music_files: where the call is, whether the decryptor
\* was imported, whether Unlocked/ exists, the files submitted, the futures,
\* the tallies of the collecting loop, and the response
IdleBatch(available, exists) ==
    [pc |-> "idle", decryptor_available |-> available, unlocked_exists |-> exists,
     encrypted_files |-> {}, unlock_workers |-> 0, futures |-> << >>,
     successful_unlocks |-> 0, failed_unlocks |-> 0, moved_to_new |-> 0,
     failed_files |-> << >>, faults |-> 0, response |-> EarlyResponse(FALSE)]

UnlockInit ==
    /\ \E chosen \in SUBSET UnlockedFiles, available, exists, new \in BOOLEAN :
        /\ Cardinality(chosen) <= MaxUnlocked
        /\ ~exists => chosen = {}
        /\ fs = { [dir |-> "Unlocked", sub |-> "", name |-> u.name, content |-> u.content] :
                    u \in chosen }
                  \cup {LibraryFile} \cup (IF new THEN {NewFile} ELSE {})
        /\ batch = IdleBatch(available, exists)
    /\ catalog = [songs |-> << Record(PathOf(LibraryFile), LibraryFile.content) >>,
                  last_updated |-> 0]
    /\ disk = catalog
    /\ start = Snapshot(fs, catalog)
    /\ now = 0
    /\ placed = 0
    /\ faulted = 0
    /\ last = Idle("init")
    /\ threads = [t \in Threads |-> IdleThread]
    /\ codec = NoCodec

\* unlocked_path.rglob('*') filtered by suffix.lower() in encrypted_formats
EncryptedFiles(files) ==
    { PathOf(f) : f \in { g \in InDir(files, "Unlocked") :
                            LowerExt(g.name.ext) \in encrypted_formats } }

Max(a, b) == IF a > b THEN a ELSE b

Min(a, b) == IF a < b THEN a ELSE b

\* Variant: the number of workers without the lower limit of 2
UnlockWorkers_NoFloor(cpu_count, n) == Min(Min(cpu_count, n), 8)

\* max(2, min(cpu_count, len(encrypted_files), 8))
UnlockWorkers(cpu_count, n) == Max(2, Min(Min(cpu_count, n), 8))

\* os.cpu_count() or 4
CpuCounts == {1, 4}

\* The worker count of unlock_music_files.  unlock_max_workers is
\* CONFIG.get('unlock_max_workers'), [set |-> FALSE] standing for None;
\* cpu_count is os.cpu_count(), 0 standing for None ("or 4").  Automatic
\* when nothing is configured, else the configured number limited by the
\* number of files
ChosenWorkers(unlock_max_workers, cpu_count, n) ==
    IF ~unlock_max_workers.set
    THEN UnlockWorkers(IF cpu_count = 0 THEN 4 ELSE cpu_count, n)
    ELSE Min(unlock_max_workers.value, n)

\* unlock_music_files up to the submission of the tasks: the three early
\* returns, else one future per encrypted file
UnlockMusicFiles ==
    /\ batch.pc = "idle"
    /\ codec = NoCodec
    /\ LET encrypted_files == EncryptedFiles(fs)
       IN  IF ~batch.decryptor_available
           THEN batch' = [batch EXCEPT !.pc = "returned", !.response = EarlyResponse(FALSE)]
           ELSE IF ~batch.unlocked_exists \/ encrypted_files = {}
           THEN batch' = [batch EXCEPT !.pc = "returned", !.response = EarlyResponse(TRUE)]
           ELSE \E cpu_count \in CpuCounts :
                   batch' = [batch EXCEPT
                       !.pc = "running",
                       !.encrypted_files = encrypted_files,
                       !.unlock_workers = ChosenWorkers([set |-> FALSE, value |-> 0], cpu_count,
                                                        Cardinality(encrypted_files)),
                       !.futures = [p \in encrypted_files |-> Future("queued", NoResult)]]
    /\ UNCHANGED <<fs, catalog, disk, now, placed, faulted, last, threads, start, codec>>

\* The futures a worker thread is running
Running == { p \in DOMAIN batch.futures : batch.futures[p].pc \in {"enhanced", "fallback"} }

\* A worker takes a submitted file; unlock_single_file up to the call of decrypt_file:
\* an unknown format is a failure at once
WorkerDetect ==
    \E p \in DOMAIN batch.futures :
        /\ batch.pc = "running"
        /\ batch.futures[p].pc = "queued"
        /\ Cardinality(Running) < batch.unlock_workers
        /\ batch' = [batch EXCEPT !.futures[p] =
                        IF DetectFileFormat(p.name) = "unknown"
                        THEN Future("done", Failed(p, "Unsupported format"))
                        ELSE Future("enhanced", NoResult)]
        /\ UNCHANGED <<fs, catalog, disk, now, placed, faulted, last, threads, start, codec>>

\* MusicDecryptor.decrypt_file, the enhanced decryptor: its result is the
\* worker's success; when it raises the error is logged and the call goes on
WorkerEnhanced ==
    \E p \in DOMAIN batch.futures :
        /\ batch.pc = "running"
        /\ batch.futures[p].pc = "enhanced"
        /\ LET r == EnhancedDecryptFile(fs, p, "New")
           IN  /\ fs' = r.fs
               /\ batch' = [batch EXCEPT !.futures[p] =
                      IF r.raised = "none"
                      THEN [Future("done", Unlocked(p, r.file)) EXCEPT !.enhanced = "returned"]
                      ELSE [Future("fallback", NoResult) EXCEPT !.enhanced = r.raised]]
        /\ UNCHANGED <<catalog, disk, now, placed, faulted, last, threads, start, codec>>

\* MusicDecryptor.decrypt_file, the simplified decryptor, and the rest of
\* unlock_single_file
WorkerFallback ==
    \E p \in DOMAIN batch.futures :
        /\ batch.pc = "running"
        /\ batch.futures[p].pc = "fallback"
        /\ LET r == Fallback(fs, p, "New")
           IN  /\ fs' = r.fs
               /\ batch' = [batch EXCEPT !.futures[p] =
                      [@ EXCEPT !.pc = "done",
                                !.result = IF r.success THEN Unlocked(p, r.file)
                                           ELSE Failed(p, r.error)]]
        /\ UNCHANGED <<catalog, disk, now, placed, faulted, last, threads, start, codec>>

\* A worker ends with an exception that unlock_single_file does not turn
\* into a result (one raised inside its except clause)
WorkerException ==
    \E p \in DOMAIN batch.futures :
        /\ batch.pc = "running"
        /\ batch.futures[p].pc \in {"enhanced", "fallback"}
        /\ batch.faults < MaxWorkerFaults
        /\ batch' = [batch EXCEPT !.futures[p] = [@ EXCEPT !.pc = "done",
                                                            !.result = WorkerRaised(p)],
                                  !.faults = @ + 1]
        /\ UNCHANGED <<fs, catalog, disk, now, placed, faulted, last, threads, start, codec>>

\* Variant: a failure is counted and not listed
Tally_Unlisted(b, result) ==
    IF result.success
    THEN [b EXCEPT !.successful_unlocks = @ + 1, !.moved_to_new = @ + 1]
    ELSE [b EXCEPT !.failed_unlocks = @ + 1]

\* The body of the loop over as_completed for one result
Tally(b, result) ==
    IF result.raised
    THEN [b EXCEPT !.failed_unlocks = @ + 1,
                   !.failed_files = Append(@, [file |-> result.file,
                                               error |-> "Worker exception"])]
    ELSE IF result.success
    THEN [b EXCEPT !.successful_unlocks = @ + 1,
                   !.moved_to_new = IF result.moved_to_new THEN @ + 1 ELSE @]
    ELSE [b EXCEPT !.failed_unlocks = @ + 1,
                   !.failed_files = Append(@, [file |-> result.file,
                                               error |-> result.error])]

\* as_completed yields a future that is done: the calling thread adds its
\* result to the tallies
Collect ==
    \E p \in DOMAIN batch.futures :
        /\ batch.pc = "running"
        /\ batch.futures[p].pc = "done"
        /\ ~batch.futures[p].collected
        /\ batch' = [Tally(batch, batch.futures[p].result) EXCEPT !.futures[p].collected = TRUE]
        /\ UNCHANGED <<fs, catalog, disk, now, placed, faulted, last, threads, start, codec>>

\* The loop has seen every future: the response is built and returned
ReturnUnlock ==
    /\ batch.pc = "running"
    /\ \A p \in DOMAIN batch.futures : batch.futures[p].collected
    /\ batch' = [batch EXCEPT !.pc = "returned",
                    !.response = [success |-> TRUE,
                                  processed_files |-> Cardinality(batch.encrypted_files),
                                  successful_unlocks |-> batch.successful_unlocks,
                                  failed_unlocks |-> batch.failed_unlocks,
                                  moved_to_new |-> batch.moved_to_new,
                                  failed_files |-> batch.failed_files]]
    /\ UNCHANGED <<fs, catalog, disk, now, placed, faulted, last, threads, start, codec>>

\* EnhancedUniversalDecryptor.decrypt_file called on a path, with New/ as
\* the output directory
CallDecryptFile ==
    /\ batch.pc = "idle"
    /\ codec = NoCodec
    /\ \E p \in { PathOf(f) : f \in InDir(fs, "Unlocked") } \cup {MissingPath} :
        LET r == EnhancedDecryptFile(fs, p, "New")
        IN  /\ fs' = r.fs
            /\ codec' = [op |-> "decrypt_file", path |-> p, raised |-> r.raised,
                         handler |-> r.handler, file |-> r.file]
    /\ UNCHANGED <<catalog, disk, now, placed, faulted, last, threads, start, batch>>

UnlockNext ==
    \/ UnlockMusicFiles
    \/ WorkerDetect
    \/ WorkerEnhanced
    \/ WorkerFallback
    \/ WorkerException
    \/ Collect
    \/ ReturnUnlock
    \/ CallDecryptFile

SpecUnlock == UnlockInit /\ [][UnlockNext]_vars

\* ------------------------------------------------------------ properties of the unlock batch
\* C12: from the start of an unlock batch to its return Unlocked/ holds the
\* files it held, with their names and contents, and Library/, the catalog
\* and the catalog file are as they were.
C12_UnlockFrame ==
    batch.pc \in {"running", "returned"} =>
        /\ InDir(fs, "Unlocked") = InDir(start.fs, "Unlocked")
        /\ InDir(fs, "Library") = InDir(start.fs, "Library")
        /\ catalog = start.catalog
        /\ disk = start.catalog

\* C12, the case: a batch has returned with a file unlocked and a file
\* failed, and New/ holds a file it did not hold
C12_Witness ==
    /\ batch.pc = "returned"
    /\ batch.response.successful_unlocks > 0
    /\ batch.response.failed_unlocks > 0
    /\ InDir(fs, "New") # InDir(start.fs, "New")
    /\ InDir(fs, "Unlocked") = InDir(start.fs, "Unlocked")

\* An extension no decryptor knows
Unsupported(n) ==
    /\ FORMAT_HANDLERS(LowerExt(n.ext)) = "none"
    /\ DetectFileFormat(n) = "unknown"

\* C13: when unlock_music_files has returned with success, every file of
\* Unlocked/ with an unsupported extension is listed in failed_files with
\* the unsupported-format error, and failed_unlocks counts it.
C13_UnsupportedCounted ==
    (batch.pc = "returned" /\ batch.response.success) =>
        LET unsupported == { f \in InDir(fs, "Unlocked") : Unsupported(f.name) }
            failed_files == batch.response.failed_files
        IN  /\ \A f \in unsupported :
                  \E i \in 1..Len(failed_files) :
                      /\ failed_files[i].file = PathOf(f)
                      /\ failed_files[i].error = "Unsupported format"
            /\ batch.response.failed_unlocks >= Cardinality(unsupported)

\* C14: a file whose format handler raised is reported as failed and has no
\* output file in New/.
C14_ErrorAbortsFile ==
    \A p \in DOMAIN batch.futures :
        LET future == batch.futures[p]
        IN  (/\ future.pc = "done"
             /\ future.enhanced \notin {"none", "returned"}
             /\ ~future.result.raised) =>
                /\ ~future.result.success
                /\ future.result.output_file = NoFile
                /\ InDir(fs, "New") \subseteq
                      InDir(start.fs, "New")
                         \cup { f \in InDir(fs, "New") :
                                  \E q \in DOMAIN batch.futures \ {p} : f.name.base = q.name.base }

\* The futures the loop has collected
Collected == { p \in DOMAIN batch.futures : batch.futures[p].collected }

\* C15: while the loop collects, the tallies count each collected result
\* once; a batch that was started returns success=True with
\* successful_unlocks + failed_unlocks = processed_files = the number of
\* files submitted, and failed_files lists each failed file once.
C15_TalliesExact ==
    /\ batch.pc = "running" =>
          /\ batch.successful_unlocks =
                Cardinality({ p \in Collected : batch.futures[p].result.success })
          /\ batch.failed_unlocks =
                Cardinality({ p \in Collected : ~batch.futures[p].result.success })
    /\ (batch.pc = "returned" /\ batch.encrypted_files # {}) =>
          LET r == batch.response
              failed == { p \in batch.encrypted_files : ~batch.futures[p].result.success }
          IN  /\ r.success
              /\ r.processed_files = Cardinality(batch.encrypted_files)
              /\ r.successful_unlocks + r.failed_unlocks = r.processed_files
              /\ Len(r.failed_files) = r.failed_unlocks
              /\ { r.failed_files[i].file : i \in 1..Len(r.failed_files) } = failed
              /\ Cardinality(failed) = r.failed_unlocks

\* C15, the case: three files were submitted; one was unlocked, one failed
\* and one worker ended with an exception, and the failure was collected
\* before the exception
C15_Witness ==
    /\ batch.pc = "returned"
    /\ batch.response.processed_files = 3
    /\ batch.response.successful_unlocks = 1
    /\ Len(batch.response.failed_files) = 2
    /\ batch.response.failed_files[1].error # "Worker exception"
    /\ batch.response.failed_files[2].error = "Worker exception"

\* The extensions the handler table maps to handlers that are not
\* implemented, and the handler of each
Unimplemented(file_ext) ==
    CASE file_ext = "uc" -> "decrypt_ncm_cache"
      [] file_ext \in {"kgm", "kgma", "vpr"} -> "decrypt_kgm"
      [] file_ext = "kwm" -> "decrypt_kwm"
      [] file_ext = "xm" -> "decrypt_xm"
      [] OTHER -> "none"

\* C19: decrypt_file raises FileNotFoundError for a missing path, the
\* unsupported-format error for an extension outside the table, and
\* NotImplementedError for uc, kgm, kgma, vpr, kwm and xm, the handler being
\* chosen by the lowercased extension; a call that raises leaves every
\* file as it was.
C19_DispatchFailures ==
    codec.op = "decrypt_file" =>
        LET file_ext == LowerExt(codec.path.name.ext)
            exists == Exists(start.fs, codec.path)
        IN  /\ ~exists => codec.raised = "FileNotFoundError"
            /\ (exists /\ file_ext = "xyz") =>
                   codec.raised = "ValueError" /\ codec.handler = "none"
            /\ (exists /\ Unimplemented(file_ext) # "none") =>
                   /\ codec.raised = "NotImplementedError"
                   /\ codec.handler = Unimplemented(file_ext)
            /\ (exists /\ file_ext = "ncm") => codec.handler = "decrypt_ncm"
            /\ (exists /\ file_ext \in {"qmc0", "mgg"}) => codec.handler = "decrypt_qmc"
            /\ codec.raised # "none" => fs = start.fs /\ codec.file = NoFile
            /\ codec.raised = "none" => Exists(fs, codec.file)

\* C19, the case: the call on h.KGM chose decrypt_kgm, which raised, and no
\* file was written
C19_Witness ==
    /\ codec.op = "decrypt_file"
    /\ codec.path.name.ext = "KGM"
    /\ codec.handler = "decrypt_kgm"
    /\ codec.raised = "NotImplementedError"
    /\ fs = start.fs

\* C29: when the batch has returned, the files counted in moved_to_new have
\* outputs in New/ that differ from one another, and every file that was in
\* New/ before the batch is there with its content.
C29_DistinctOutputs ==
    batch.pc = "returned" =>
        /\ \A p, q \in DOMAIN batch.futures :
              (/\ p # q
               /\ batch.futures[p].result.moved_to_new
               /\ batch.futures[q].result.moved_to_new) =>
                  batch.futures[p].result.output_file # batch.futures[q].result.output_file
        /\ \A f \in InDir(start.fs, "New") : f \in fs

\* ------------------------------------------------------------ worker count
\* The worker count of unlock_music_files as a function of the processor
\* count, the number of encrypted files and the configured number.

MaxCpus == 12

MaxCount == 10

MaxConfigured == 10

\* The inputs of the choice: os.cpu_count() (0 for None), the encrypted
\* files found (at least one, the empty list returned before), the configured
\* number
WorkersInit ==
    /\ \E cpu_count \in 0..MaxCpus, n \in 1..MaxCount,
          unlock_max_workers \in {[set |-> FALSE, value |-> 0]}
                                     \cup { [set |-> TRUE, value |-> v] : v \in 0..MaxConfigured } :
          batch = [pc |-> "found", cpu_count |-> cpu_count, file_count |-> n,
                   unlock_max_workers |-> unlock_max_workers, unlock_workers |-> 0]
    /\ fs = {}
    /\ catalog = [songs |-> << >>, last_updated |-> 0]
    /\ disk = catalog
    /\ start = Snapshot(fs, catalog)
    /\ now = 0
    /\ placed = 0
    /\ faulted = 0
    /\ last = Idle("init")
    /\ threads = [t \in Threads |-> IdleThread]
    /\ codec = NoCodec

ChooseWorkers ==
    /\ batch.pc = "found"
    /\ batch' = [batch EXCEPT
           !.pc = "chosen",
           !.unlock_workers = ChosenWorkers(batch.unlock_max_workers, batch.cpu_count,
                                            batch.file_count)]
    /\ UNCHANGED <<fs, catalog, disk, now, placed, faulted, last, threads, start, codec>>

SpecWorkers == WorkersInit /\ [][ChooseWorkers]_vars

Largest(S) == CHOOSE x \in S : \A y \in S : x >= y

Smallest(S) == CHOOSE x \in S : \A y \in S : x =< y

\* C24: with nothing configured the worker count is max(2, min(cpuCount,
\* fileCount, 8)), cpuCount being 4 when it is unknown, and so lies in 2..8;
\* with a number configured it is min(configured, fileCount), which is at
\* least 1 when the configured number is.
C24_WorkerCount ==
    batch.pc = "chosen" =>
        IF ~batch.unlock_max_workers.set
        THEN /\ batch.unlock_workers =
                  Largest({2, Smallest({IF batch.cpu_count = 0 THEN 4 ELSE batch.cpu_count,
                                        batch.file_count, 8})})
             /\ batch.unlock_workers \in 2..8
        ELSE /\ batch.unlock_workers =
                  Smallest({batch.unlock_max_workers.value, batch.file_count})
             /\ batch.unlock_max_workers.value >= 1 => batch.unlock_workers >= 1

\* C24, the case: one processor and one file gave 2 workers
C24_Witness ==
    /\ batch.pc = "chosen"
    /\ ~batch.unlock_max_workers.set
    /\ batch.cpu_count = 1 /\ batch.file_count = 1
    /\ batch.unlock_workers = 2

\* C21: decrypt_file on an .ncm file that does not start with the magic
\* header, that has a key length of 0 or whose key is empty after the 17
\* bytes of preamble raises in decrypt_ncm, returns no DecryptResult and
\* writes no file.
C21_NcmRejectsMalformed ==
    (/\ codec.op = "decrypt_file"
     /\ Exists(start.fs, codec.path)
     /\ LowerExt(codec.path.name.ext) = "ncm"
     /\ FileAt(start.fs, codec.path).content.form \in {"nomagic", "short", "keylen0", "nokey"}) =>
        /\ codec.handler = "decrypt_ncm"
        /\ codec.raised \in {"ValueError", "ZeroDivisionError"}
        /\ codec.file = NoFile
        /\ fs = start.fs

\* C21, the case: the call on the file with a key length of 0 raised and
\* wrote nothing
C21_Witness ==
    /\ codec.op = "decrypt_file"
    /\ Exists(start.fs, codec.path)
    /\ FileAt(start.fs, codec.path).content.form = "keylen0"
    /\ codec.raised = "ValueError"
    /\ fs = start.fs
====
